---- MODULE Spec2Model ----
(***************************************************************************)
(* Amtrak on-time analysis: the daily ETL (train pages -> stops, weather    *)
(* API -> weather_hourly, join -> stops_joined) and the store the dashboard *)
(* reads.  Each part of the pipeline has its own specification over the     *)
(* shared variables:                                                        *)
(*   SpecPC      process_columns            (src/trains_ETL.py)             *)
(*   SpecRaw     raw_data_to_raw_df         (src/trains_ETL.py)             *)
(*   SpecUpd     update_trains              (src/utils.py)                  *)
(*   SpecJob     cron_etl_job + dashboard   (src/app.py, src/utils.py)      *)
(*   SpecPrecip  update_precip              (src/utils.py)                  *)
(*   SpecWx      ETL_previous_day_weather_data (src/weather_ETL.py)         *)
(* Date-times are integers: minutes since day 0, 00:00 (hours since day 0,  *)
(* 00:00 once truncated to the hour).                                       *)
(***************************************************************************)
EXTENDS Integers, Sequences, FiniteSets, TLC

VARIABLES
    pc,             \* position of the operation of the specification at hand
    df,             \* process_columns: the raw frame (a sequence of raw rows)
    actDate,        \* process_columns: the column df['Act Date'] after lines 276-284
    new_df,         \* process_columns: what the call produced (frame or exception)
    raw_data,       \* raw_data_to_raw_df: station -> list of fetched pages
    raw_df,         \* raw_data_to_raw_df: what the call produced (frame or exception)
    stops,          \* store: committed rows of table stops
    stop_seq,       \* store: next value of the stop_id sequence
    lastCall,       \* update_trains: arguments of the latest call (<<>> before the first)
    errors,         \* update_trains: inserts of the latest call that raised
    calls,          \* update_trains: calls made so far
    repeats,        \* update_trains: latest calls in a row with the same arguments, less one
    weather_hourly, \* store: committed rows of table weather_hourly
    stops_joined,   \* store: committed rows of table stops_joined
    db_error,       \* whether the latest execute_command logged DATABASE ERROR
    runs,           \* runs of cron_etl_job started so far
    settled,        \* stops_joined as the latest completed join_datasets left it
    query_df,       \* dashboard: the rows the latest query read
    responses,      \* weather ETL: the answers of the weather API, one for each location
    wx_log,         \* weather ETL: the "Successful ETL" lines logged by the latest call
    today,          \* the calendar day of the clock (date.today())
    req,            \* retrieve_data: index of the next URL to request
    outcomes,       \* retrieve_data: how each request made so far ended
    requested,      \* retrieve_data: URL index -> requests sent to it
    fetched,        \* retrieve_data: raw_data, kind -> station -> pages appended
    failed_retrievals,  \* retrieve_data: the (station, url) pairs recorded as failed
    url_args,       \* construct_urls: the arguments of the call
    urls,           \* construct_urls: the dictionary it returned
    n_clicks,       \* dashboard: n_clicks of send-query-button
    alert_msg,      \* dashboard: children of alert-msg
    figure,         \* dashboard: figure of geo-route
    callback,       \* dashboard: how the latest call of generate_query ended
    controls,       \* dashboard: the values of the controls at the latest click
    sent_query,     \* dashboard: the texts put into the query of the latest click
    env,            \* start-up: the environment variables that are set
    boot,           \* start-up: the statement of app.py the main thread is about to run
    served,         \* start-up: dashboard pages served so far
    query_logs,     \* dashboard: the query_logs table
    options,        \* dashboard: the options of train-num-picker
    card,           \* dashboard: the content of the trip card
    layout          \* dashboard: the layout display_page returned last

pcVars  == <<df, actDate, new_df>>
rawVars == <<raw_data, raw_df>>
updVars == <<lastCall, errors, calls, repeats>>
stopVars == <<stops, stop_seq>>
fetchVars == <<req, outcomes, requested, fetched, failed_retrievals, url_args, urls>>
pageVars == <<options, card, layout>>
appVars == <<n_clicks, alert_msg, figure, callback, controls, sent_query, env, boot, served, query_logs,
             options, card, layout>>
jobVars == <<weather_hourly, stops_joined, db_error, runs, settled, query_df, responses, wx_log, today>>
vars == <<pc, df, actDate, new_df, raw_data, raw_df, stops, stop_seq, lastCall, errors, calls,
          repeats, weather_hourly, stops_joined, db_error, runs, settled, query_df, responses, wx_log,
          today, req, outcomes, requested, fetched, failed_retrievals, url_args, urls, n_clicks,
          alert_msg,
          figure, callback, controls, sent_query, env, boot, served, query_logs, options, card, layout>>

(***************************************************************************)
(* Bounds                                                                   *)
(***************************************************************************)
MaxBatch == 2       \* rows in one raw frame handed to process_columns
MaxRows == 2        \* data rows (after the title and header rows) in one fetched page
MaxCsv == 2         \* rows in one CSV file handed to update_trains
MaxCalls == 2       \* calls of update_trains in a row
MaxRuns == 2        \* runs of the daily job
MaxJoined == 2      \* rows of stops_joined when update_precip alone is looked at
MaxHours == 2       \* hourly rows in one answer of the weather API
MaxDays == 2        \* days the clock runs through while the daily job is looked at
MaxAgg == 2         \* rows of stops_joined when the dashboard is looked at
MaxGroups == 2      \* groups of train numbers of one direction in a call of construct_urls
MaxServed == 1      \* pages served after the start
MaxClicks == 2      \* clicks on send-query-button

(***************************************************************************)
(* Helpers                                                                  *)
(***************************************************************************)
SeqsUpTo(S, n) == UNION {[1..k -> S] : k \in 0..n}

RECURSIVE SelectIdx(_, _, _)
\* the indices i of 1..n, ascending, for which keep[i]
SelectIdx(keep, i, n) ==
    IF i > n THEN <<>>
    ELSE (IF keep[i] THEN <<i>> ELSE <<>>) \o SelectIdx(keep, i + 1, n)

(***************************************************************************)
(* retrieve_data and make_request                                           *)
(*                                                                          *)
(* A URL is the kind of its list ('Depart' or 'Arrive'), its station and    *)
(* the list of trains it asks for; a page is known by the index of the URL  *)
(* that answered with it.                                                   *)
(***************************************************************************)
\* keys of make_dict()['Arrive'], in insertion order
ArriveStations == <<"NYP", "NHV", "PHL", "BOS", "WAS">>

\* keys of make_dict()['Depart'], in insertion order
DepartStations ==
    <<"BOS", "BBY", "RTE", "PVD", "KIN", "WLY", "MYS", "NLC", "OSB", "NHV", "BRP", "STM", "NRO",
      "NYP", "NWK", "EWR", "MET", "TRE", "PHL", "WIL", "ABE", "BAL", "BWI", "NCR", "WAS">>

\* the lists arrive and depart of construct_urls (lines 72-74)
arrive_list == <<"NYP", "NHV", "PHL">>
depart_list ==
    <<"BBY", "RTE", "PVD", "KIN", "WLY", "MYS", "NLC", "OSB", "NHV", "BRP", "STM", "NRO",
      "NYP", "NWK", "EWR", "MET", "TRE", "PHL", "WIL", "ABE", "BAL", "BWI", "NCR">>

Range(seq) == {seq[k] : k \in 1..Len(seq)}

\* a dictionary whose 'Depart' keys are the stations of the list depart only,
\* without the terminals
make_dict_without_terminals ==
    [kind \in {"Depart", "Arrive"} |->
        [st \in (IF kind = "Depart" THEN Range(depart_list) ELSE Range(ArriveStations)) |->
            <<>>]]

\* make_dict: an empty list of pages for every station of either kind
make_dict ==
    [kind \in {"Depart", "Arrive"} |->
        [st \in (IF kind = "Depart" THEN Range(DepartStations) ELSE Range(ArriveStations)) |->
            <<>>]]

\* the station lists of construct_urls, the lists arrive and depart cut down to
\* New York and, for the departures, New Haven
url_arrive == <<"NYP">>
url_depart == <<"NHV", "NYP">>

\* str() of the numbers that go into a URL
Str(n) ==
    CASE n = 1 -> "1" [] n = 4 -> "4" [] n = 5 -> "5" [] n = 30 -> "30" [] n = 2021 -> "2021"
      [] n = 66 -> "66" [] n = 67 -> "67" [] n = 82 -> "82" [] n = 83 -> "83"

RECURSIVE convert_train_nums_loop(_, _)
\* lines 41-42: '%2C' and the number, for the numbers after the first
convert_train_nums_loop(train_nums_list, k) ==
    IF k > Len(train_nums_list) THEN <<>>
    ELSE <<"%2C", Str(train_nums_list[k])>> \o convert_train_nums_loop(train_nums_list, k + 1)

\* convert_train_nums_to_string; a text is the sequence of its pieces
convert_train_nums_to_string(train_nums_list) ==
    <<Str(train_nums_list[1])>> \o convert_train_nums_loop(train_nums_list, 2)

convert_dates_to_string(dt_start, dt_end) ==
    <<"&date_start=", Str(dt_start.month), "%2F", Str(dt_start.day), "%2F", Str(dt_start.year),
      "&date_end=", Str(dt_end.month), "%2F", Str(dt_end.day), "%2F", Str(dt_end.year)>>

\* lines 79-80 and 83-84: URL_ROOT + TRAINS + DATES + STATION + DFS + sort + URL_END
Url(TRAINS, DATES, station, sort) ==
    <<"URL_ROOT">> \o TRAINS \o DATES \o <<"&station=", station, "DFS", sort, "URL_END">>

\* one of the inner loops: a (station, URL) pair for each station
StationUrls(stations, TRAINS, DATES, sort) ==
    [k \in 1..Len(stations) |-> <<stations[k], Url(TRAINS, DATES, stations[k], sort)>>]

RECURSIVE DirectionUrls(_, _, _, _, _)
\* one of the outer loops, from group i on: the departures with one terminal,
\* the arrivals with the other
DirectionUrls(trains, i, depart_terminal, arrive_terminal, DATES) ==
    IF i > Len(trains) THEN [Depart |-> <<>>, Arrive |-> <<>>]
    ELSE LET TRAINS == convert_train_nums_to_string(trains[i])
             rest   == DirectionUrls(trains, i + 1, depart_terminal, arrive_terminal, DATES)
         IN  [Depart |-> StationUrls(url_depart \o <<depart_terminal>>, TRAINS, DATES, "DEP")
                             \o rest.Depart,
              Arrive |-> StationUrls(url_arrive \o <<arrive_terminal>>, TRAINS, DATES, "ARR")
                             \o rest.Arrive]

\* construct_urls with Washington as the terminal of the departures of both
\* directions and Boston as the terminal of the arrivals of both
construct_urls_one_terminal(northbound_trains, southbound_trains, start_date, end_date) ==
    LET DATES == convert_dates_to_string(start_date, end_date)
        nb    == DirectionUrls(northbound_trains, 1, "WAS", "BOS", DATES)
        sb    == DirectionUrls(southbound_trains, 1, "WAS", "BOS", DATES)
    IN  [Depart |-> nb.Depart \o sb.Depart, Arrive |-> nb.Arrive \o sb.Arrive]

\* construct_urls: for the northbound groups, then for the southbound groups,
\* one URL for each station and the terminal of the direction
construct_urls(northbound_trains, southbound_trains, start_date, end_date) ==
    LET DATES == convert_dates_to_string(start_date, end_date)
        nb    == DirectionUrls(northbound_trains, 1, "WAS", "BOS", DATES)
        sb    == DirectionUrls(southbound_trains, 1, "BOS", "WAS", DATES)
    IN  [Depart |-> nb.Depart \o sb.Depart, Arrive |-> nb.Arrive \o sb.Arrive]

\* dates a call is made with
Dates == {[year |-> 2021, month |-> 4, day |-> 30], [year |-> 2021, month |-> 5, day |-> 1]}

\* the arguments retrieve_data calls construct_urls with: one group for each
\* direction (cut down to one train), yesterday and today
RetrieveArgs ==
    [northbound_trains |-> <<<<66>>>>, southbound_trains |-> <<<<67>>>>,
     start_date |-> [year |-> 2021, month |-> 4, day |-> 30],
     end_date |-> [year |-> 2021, month |-> 5, day |-> 1]]

Construct(args) ==
    construct_urls(args.northbound_trains, args.southbound_trains, args.start_date, args.end_date)

\* the order retrieve_data requests them in: lines 132 and 138
Urls ==
    LET u == Construct(RetrieveArgs)
    IN  [k \in 1..Len(u.Depart) |->
            [kind |-> "Depart", station |-> u.Depart[k][1], url |-> u.Depart[k][2]]] \o
        [k \in 1..Len(u.Arrive) |->
            [kind |-> "Arrive", station |-> u.Arrive[k][1], url |-> u.Arrive[k][2]]]

\* how requests.get / raise_for_status can end
Outcomes == {"ok", "HTTPError", "Timeout", "ConnectionError"}

\* make_request: the page, None, or the exception it lets through; only
\* requests.exceptions.HTTPError is caught (line 109)
make_request(outcome) ==
    IF outcome = "ok" THEN "page"
    ELSE IF outcome = "HTTPError" THEN "None"
    ELSE "raises"

\* the variables of retrieve_data while another operation is looked at
IdleFetch ==
    /\ req = 0 /\ outcomes = <<>> /\ requested = <<>> /\ fetched = <<>>
    /\ failed_retrievals = <<>> /\ url_args = <<>> /\ urls = <<>>

(***************************************************************************)
(* The dashboard process: what it needs of the environment, and the outputs *)
(* of generate_query before any query                                       *)
(***************************************************************************)
\* the environment variables the modules assert at import
EnvNames == {"DATABASE_URL", "VC_TOKEN", "MAPBOX_TOKEN"}

None == 0                       \* n_clicks of a button that has not been clicked

\* alert-msg has no children and geo-route shows the default route
NoAlert == [kind |-> "none"]
DefaultRoute == [kind |-> "default"]

\* the scheduler thread is up from scheduler.start() (line 72) on, until the
\* process ends
SchedulerRunning == boot \in {"assert MAPBOX_TOKEN", "run_server", "serving"}

\* no query built yet
NoQuery == [direction |-> "", selected_days |-> <<>>, weather_type |-> <<>>,
            sort_stop_num |-> ""]

\* the values the controls are laid out with: Southbound, every day (of the
\* days looked at: 1 is Monday), every precipitation type (of those looked at)
DefaultControls ==
    [direction |-> "'Southbound'", days |-> {1, 2}, weather_type |-> <<"None", "Rain">>]

\* no query logged, no date picked, no trip asked for, no page displayed
IdlePages ==
    /\ query_logs = <<>> /\ options = {} /\ card = [kind |-> "none"] /\ layout = "none"

\* the variables of the dashboard while another operation is looked at
IdleApp ==
    /\ n_clicks = None /\ alert_msg = NoAlert /\ figure = DefaultRoute
    /\ callback = "not called" /\ controls = DefaultControls /\ sent_query = NoQuery
    /\ env = EnvNames /\ boot = "serving" /\ served = 0
    /\ IdlePages

(***************************************************************************)
(* process_columns                                                          *)
(***************************************************************************)
MinutesPerDay == 1440
HoursPerDay == 24               \* hours of a day; the "/24" of the weather log line
NaT == -1                       \* what errors='coerce' leaves for an unparseable value
max_expected_delay == 600       \* pd.Timedelta(hours=10), in minutes
SchedDay == 1                   \* calendar day of the scheduled date-times drawn

\* clock times (minute of the day) the raw rows are drawn from:
\* 00:10, 10:10, 10:11, 13:54, 13:55, 23:55
ClockTimes == {10, 610, 611, 834, 835, 1435}

PlainRow(s, a) ==
    [sched |-> s, act |-> a, origin |-> SchedDay, sd |-> "", cn |-> ""]

\* raw rows: every pairing of a scheduled date-time at 00:10 or 23:55 with an
\* actual clock time, either of them possibly unparseable; and rows that vary
\* the origin date and the two flag columns (the columns are transformed
\* independently of one another)
TimeRows ==
    {PlainRow(s, a) : s \in {SchedDay * MinutesPerDay + 10,
                             SchedDay * MinutesPerDay + 1435, NaT},
                      a \in ClockTimes \cup {NaT}}
FlagRows ==
    {[sched |-> SchedDay * MinutesPerDay + 10, act |-> 10, origin |-> o, sd |-> s, cn |-> c] :
        o \in {SchedDay, NaT}, s \in {"", "SD"}, c \in {"", "C"}}
RawRows == TimeRows \cup FlagRows

DateOf(ts) == ts \div MinutesPerDay

\* lines 276-278: the scheduled calendar date combined with the actual time
\* text; an actual time of NaT is a text this parse (and that of line 271)
\* rejects
NaiveActDate(r) ==
    IF r.sched = NaT \/ r.act = NaT THEN NaT
    ELSE DateOf(r.sched) * MinutesPerDay + r.act

HasDelta(r) == r.sched # NaT /\ NaiveActDate(r) # NaT

\* line 280: delta = df['Act Date'] - df['Sched Date'] (only where both parse)
Delta(r) == NaiveActDate(r) - r.sched

m_late_inclusive(r) ==
    HasDelta(r) /\ Delta(r) < max_expected_delay /\ -1 * max_expected_delay >= Delta(r)

\* line 281; a comparison with NaT is False
m_late(r) ==
    HasDelta(r) /\ Delta(r) < max_expected_delay /\ -1 * max_expected_delay > Delta(r)

m_early_unnegated(r) ==
    HasDelta(r) /\ Delta(r) < max_expected_delay
                /\ -1 * max_expected_delay > -1 * Delta(r)

\* line 282
m_early(r) ==
    HasDelta(r) /\ -1 * Delta(r) < max_expected_delay
                /\ -1 * max_expected_delay > -1 * Delta(r)

\* the actual date-time with the day added for a late row and none taken
\* away for an early one
CorrectedActDate_adding_only(r) ==
    IF ~HasDelta(r) THEN NaT
    ELSE IF m_late(r) THEN NaiveActDate(r) + MinutesPerDay ELSE NaiveActDate(r)

\* lines 283-284
CorrectedActDate(r) ==
    IF ~HasDelta(r) THEN NaT
    ELSE LET a1 == IF m_late(r) THEN NaiveActDate(r) + MinutesPerDay ELSE NaiveActDate(r)
         IN  IF m_early(r) THEN a1 - MinutesPerDay ELSE a1

\* line 286: minutes between the corrected actual and the scheduled date-time;
\* both are whole minutes, so np.rint leaves the quotient as it is
Diff(r) == CorrectedActDate(r) - r.sched

\* the marker replaced and the empty text left as it is
ReplaceFlagMarkerOnly(v, marker) == IF v = marker THEN 1 ELSE NaT

\* lines 288-289: .replace(marker, 1).replace('', 0); any other text is left
\* as it is and is no 0/1 flag (NaT stands for it here)
ReplaceFlag(v, marker) == IF v = marker THEN 1 ELSE IF v = "" THEN 0 ELSE NaT

\* the row of new_df built from raw row i before the final dropna
NewRow(r, i) ==
    [idx        |-> i,
     origin     |-> r.origin,
     sched      |-> r.sched,
     actFull    |-> CorrectedActDate(r),
     diff       |-> IF HasDelta(r) THEN Diff(r) ELSE 0,   \* NaN: see hasNaN
     sd         |-> ReplaceFlag(r.sd, "SD"),
     cn         |-> ReplaceFlag(r.cn, "C"),
     hasNaN     |-> r.origin = NaT \/ r.sched = NaT \/ r.act = NaT]

\* line 287: np.rint(diff).astype(int) raises ValueError when a diff is NaN
DiffCastRaises(frame) == \E i \in 1..Len(frame) : ~HasDelta(frame[i])

\* line 292: new_df.replace('', np.nan).dropna()
DropNa(frame) ==
    LET keep == [i \in 1..Len(frame) |-> ~NewRow(frame[i], i).hasNaN]
        ix   == SelectIdx(keep, 1, Len(frame))
    IN  [k \in 1..Len(ix) |-> NewRow(frame[ix[k]], ix[k])]

\* process_columns as a whole: the exception it raises, or the frame it returns
process_columns(frame) ==
    IF DiffCastRaises(frame)
    THEN [raised |-> TRUE,  frame |-> <<>>]
    ELSE [raised |-> FALSE, frame |-> DropNa(frame)]

NoResult == [raised |-> FALSE, frame |-> <<>>]

\* the variables of process_columns while another operation is looked at
IdlePC == df = <<>> /\ actDate = <<>> /\ new_df = NoResult
\* the variables of raw_data_to_raw_df while another operation is looked at
IdleRaw == raw_data = <<>> /\ raw_df = NoResult
\* the store and the variables of update_trains while another operation is looked at
IdleStore == stops = {} /\ stop_seq = 1
IdleUpd == lastCall = <<>> /\ errors = 0 /\ calls = 0 /\ repeats = 0
IdleJob ==
    /\ weather_hourly = {} /\ stops_joined = {} /\ db_error = FALSE /\ runs = 0 /\ settled = {}
    /\ query_df = {} /\ responses = <<>> /\ wx_log = <<>> /\ today = SchedDay + 1

InitPC ==
    /\ pc = "loaded"
    /\ df \in SeqsUpTo(RawRows, MaxBatch)
    /\ actDate = <<>>
    /\ new_df = NoResult
    /\ IdleRaw /\ IdleStore /\ IdleUpd /\ IdleJob
    /\ IdleFetch /\ IdleApp

ProcessColumns ==
    /\ pc = "loaded"
    /\ actDate' = [i \in 1..Len(df) |-> CorrectedActDate(df[i])]
    /\ new_df' = process_columns(df)
    /\ pc' = "returned"
    /\ UNCHANGED <<appVars, fetchVars, df, rawVars, stopVars, updVars, jobVars>>

NextPC == ProcessColumns

SpecPC == InitPC /\ [][NextPC]_vars

(***************************************************************************)
(* raw_data_to_raw_df                                                       *)
(*                                                                          *)
(* A fetched page is the sequence of its <tr> elements, each with the       *)
(* number of its cells and the number its text holds: the title row (the    *)
(* train number of the request), the header row, then the data rows (the    *)
(* train number of the row).  A page without a table has no <tr>.           *)
(***************************************************************************)
N == 7                          \* cells of a well-formed data row

\* stations whose request was answered with a page; the lists of the others
\* stay empty, as they do after a failed request
FetchedStations == {"NYP", "BOS"}

TrainNums == {66, 67}
TitleRow(n) == [cells |-> 1, num |-> n]
HeaderRow == [cells |-> N, num |-> 0]
DataRows == [cells : {N - 1, N, N + 1}, num : TrainNums]
Pages ==
    {<<>>} \cup
    {<<TitleRow(n), HeaderRow>> \o d : n \in TrainNums, d \in SeqsUpTo(DataRows, MaxRows)}

\* get_direction with the parities exchanged
get_direction_odd_northbound(num) == IF num % 2 = 0 THEN "Southbound" ELSE "Northbound"

\* get_direction (odd = Southbound, even = Northbound)
get_direction(num) == IF num % 2 = 0 THEN "Northbound" ELSE "Southbound"

\* get_num applied to the text of a row
get_num(tr) == tr.num

\* get_html_col_names raises IndexError when NYP has no page (data_list[0]) or
\* its first page has no second row (tr_elements[1])
ColNamesRaise(rd) == Len(rd["NYP"]) = 0 \/ Len(rd["NYP"][1]) < 2

RowEmittedIgnoringCells(table_row) == TRUE

\* line 215: the row is emitted only when it has exactly N cells
RowEmitted(table_row) == table_row.cells = N

RECURSIVE RowRecords(_, _, _, _, _)
\* lines 213-222 from row j on: one record for each emitted row, in order;
\* `at` records where the row stood (station, page, row), for the claims
RowRecords(station, i, tr_elements, direction, j) ==
    IF j > Len(tr_elements) THEN <<>>
    ELSE (IF RowEmitted(tr_elements[j])
          THEN <<[Direction |-> direction, Station |-> station,
                  num |-> tr_elements[j].num, at |-> <<station, i, j>>]>>
          ELSE <<>>)
         \o RowRecords(station, i, tr_elements, direction, j + 1)

\* the page loop body reading a page of three rows as well
PageRecords_from_three_rows(station, i, tr_elements) ==
    IF Len(tr_elements) >= 3
    THEN RowRecords(station, i, tr_elements, get_direction(get_num(tr_elements[1])), 3)
    ELSE <<>>

\* lines 207-224 for page i of a station; range(2, len) starts at the third row
PageRecords(station, i, tr_elements) ==
    IF Len(tr_elements) > 3
    THEN RowRecords(station, i, tr_elements, get_direction(get_num(tr_elements[1])), 3)
    ELSE <<>>

RECURSIVE StationRecords(_, _, _)
StationRecords(station, data_list, i) ==
    IF i > Len(data_list) THEN <<>>
    ELSE PageRecords(station, i, data_list[i]) \o StationRecords(station, data_list, i + 1)

RECURSIVE AllRecords(_, _)
\* line 203: the stations in the order of the keys of the dictionary
AllRecords(rd, k) ==
    IF k > Len(ArriveStations) THEN <<>>
    ELSE StationRecords(ArriveStations[k], rd[ArriveStations[k]], 1) \o AllRecords(rd, k + 1)

raw_data_to_raw_df(rd) ==
    IF ColNamesRaise(rd)
    THEN [raised |-> TRUE,  frame |-> <<>>]
    ELSE [raised |-> FALSE, frame |-> AllRecords(rd, 1)]

StationSet == {ArriveStations[k] : k \in 1..Len(ArriveStations)}

\* every request sent once: a fetched station holds no page or one page
InitRaw ==
    /\ pc = "loaded"
    /\ \E got \in [FetchedStations -> SeqsUpTo(Pages, 1)] :
          raw_data = [s \in StationSet |->
                         IF s \in FetchedStations THEN got[s] ELSE <<>>]
    /\ raw_df = NoResult
    /\ IdlePC /\ IdleStore /\ IdleUpd /\ IdleJob
    /\ IdleFetch /\ IdleApp

RawDataToRawDf ==
    /\ pc = "loaded"
    /\ raw_df' = raw_data_to_raw_df(raw_data)
    /\ pc' = "returned"
    /\ UNCHANGED <<appVars, fetchVars, pcVars, raw_data, stopVars, updVars, jobVars>>

NextRaw == RawDataToRawDf

SpecRaw == InitRaw /\ [][NextRaw]_vars

(***************************************************************************)
(* The store: table stops, insert_into_stops, update_trains                 *)
(*                                                                          *)
(* A row of a processed CSV file carries the columns the later steps read   *)
(* and `bad`: whether the store rejects its values (the INSERT raises).     *)
(***************************************************************************)
Stations == {"BOS", "NYP"}
ArrDep == {"Arrival", "Departure"}
\* date-times truncated to the hour are hours since day 0, 00:00
CsvRows == [train_num : {66}, station_code : Stations, origin_date : {SchedDay},
            act_hour : {SchedDay * HoursPerDay}, bad : BOOLEAN]
CsvFiles == SeqsUpTo(CsvRows, MaxCsv)

\* the natural key of a stop
StopKey(r) == <<r.origin_date, r.train_num, r.station_code, r.arrival_or_departure>>

\* the uniqueness constraint of table stops that ON CONFLICT refers to
stops_conflict(visible, r) == \E q \in visible : StopKey(q) = StopKey(r)

\* the row the INSERT of line 190 builds: tuple([arr_or_dep] + row), with the
\* stop_id the sequence gives it
StopRow(arr_or_dep, row, id) ==
    [stop_id |-> id, arrival_or_departure |-> arr_or_dep, train_num |-> row.train_num,
     station_code |-> row.station_code, origin_date |-> row.origin_date,
     act_hour |-> row.act_hour]

insert_into_stops_no_conflict_clause(visible, r, bad) ==
    IF bad \/ stops_conflict(visible, r) THEN "error" ELSE "inserted"

\* INSERT INTO stops ... ON CONFLICT DO NOTHING, seen from the transaction:
\* the statement raises, inserts the row, or does nothing
insert_into_stops(visible, r, bad) ==
    IF bad THEN "error"
    ELSE IF stops_conflict(visible, r) THEN "nothing"
    ELSE "inserted"

RECURSIVE UpdateTrainsLoop(_, _, _, _, _, _, _)
\* lines 188-193 from row i on.  `pending` are the rows inserted since the
\* transaction began; conn.rollback() discards all of them
UpdateTrainsLoop(committed, pending, seq, errs, arr_or_dep, rows, i) ==
    IF i > Len(rows) THEN [pending |-> pending, seq |-> seq, errors |-> errs]
    ELSE LET r   == StopRow(arr_or_dep, rows[i], seq)
             out == insert_into_stops(committed \cup pending, r, rows[i].bad)
         IN  IF out = "error"
             THEN UpdateTrainsLoop(committed, {}, seq, errs + 1, arr_or_dep, rows, i + 1)
             ELSE IF out = "inserted"
             THEN UpdateTrainsLoop(committed, pending \cup {r}, seq + 1, errs,
                                   arr_or_dep, rows, i + 1)
             ELSE UpdateTrainsLoop(committed, pending, seq, errs, arr_or_dep, rows, i + 1)

\* update_trains: the loop, then conn.commit() (line 194)
update_trains(committed, seq, arr_or_dep, rows) ==
    LET end == UpdateTrainsLoop(committed, {}, seq, 0, arr_or_dep, rows, 1)
    IN  [table |-> committed \cup end.pending, seq |-> end.seq, errors |-> end.errors]

InitUpd ==
    /\ pc = "idle"
    /\ stops = {}
    /\ stop_seq = 1
    /\ IdleUpd
    /\ IdlePC /\ IdleRaw /\ IdleJob
    /\ IdleFetch /\ IdleApp

UpdateTrains(arr_or_dep, rows) ==
    /\ calls < MaxCalls
    /\ LET res == update_trains(stops, stop_seq, arr_or_dep, rows)
       IN  /\ stops' = res.table
           /\ stop_seq' = res.seq
           /\ errors' = res.errors
    /\ lastCall' = <<arr_or_dep, rows>>
    /\ calls' = calls + 1
    /\ repeats' = IF lastCall = <<arr_or_dep, rows>> THEN repeats + 1 ELSE 0
    /\ UNCHANGED <<appVars, fetchVars, pc, pcVars, rawVars, jobVars>>

NextUpd == \E a \in ArrDep, rows \in CsvFiles : UpdateTrains(a, rows)

SpecUpd == InitUpd /\ [][NextUpd]_vars

(***************************************************************************)
(* The store: weather_hourly, stops_joined and the commands of              *)
(* join_datasets                                                            *)
(*                                                                          *)
(* weather_type is the sequence of the words of the text ('' is <<>>);      *)
(* LIKE '%w%' holds when w is one of them.  A precip_type of "NULL" is SQL  *)
(* NULL.                                                                    *)
(***************************************************************************)
\* station_info.weather_location_name
weather_location_name(station_code) ==
    IF station_code = "BOS" THEN "Boston, MA" ELSE "Manhattan, NY"

\* the uniqueness constraint of weather_hourly that ON CONFLICT refers to
weather_conflict(visible, w) ==
    \E q \in visible : q.location = w.location /\ q.obs_datetime = w.obs_datetime

\* the natural key of a joined stop: the PARTITION BY of remove_duplicates
JoinedKey(r) == <<r.origin_date, r.train_num, r.station_code, r.arrival_or_departure>>

\* the SELECT of join_command: each stop with the weather row at its
\* station's location and the truncated hour of its actual date-time
JoinSelect(stops_t, weather_t) ==
    {[stop_id |-> s.stop_id, arrival_or_departure |-> s.arrival_or_departure,
      train_num |-> s.train_num, station_code |-> s.station_code,
      origin_date |-> s.origin_date, act_hour |-> s.act_hour,
      temperature |-> w.temperature, precipitation |-> w.precipitation,
      cloud_cover |-> w.cloud_cover, weather_type |-> w.weather_type, precip_type |-> "NULL"] :
        <<s, w>> \in {<<s1, w1>> \in stops_t \X weather_t :
                         /\ w1.location = weather_location_name(s1.station_code)
                         /\ w1.obs_datetime = s1.act_hour}}

\* join_command with a DELETE of the joined stops in place of TRUNCATE TABLE
\* stops
join_command_deleting_joined(db) ==
    [stops |-> {s \in db.stops :
                   \A r \in JoinSelect(db.stops, db.weather_hourly) : r.stop_id # s.stop_id},
     weather_hourly |-> {},
     stops_joined |-> db.stops_joined \cup JoinSelect(db.stops, db.weather_hourly)]

\* join_command: the INSERT and the two TRUNCATEs, one transaction
join_command(db) ==
    [stops |-> {}, weather_hourly |-> {},
     stops_joined |-> db.stops_joined \cup JoinSelect(db.stops, db.weather_hourly)]

row_number_newest_first(r, table) ==
    1 + Cardinality({q \in table : JoinedKey(q) = JoinedKey(r) /\ q.stop_id > r.stop_id})

\* row_number() OVER (PARTITION BY the natural key ORDER BY stop_id)
row_number(r, table) ==
    1 + Cardinality({q \in table : JoinedKey(q) = JoinedKey(r) /\ q.stop_id < r.stop_id})

\* the sub-select of remove_duplicates: the stop_id of every row numbered 2 or more
DuplicateIds(table) == {r.stop_id : r \in {q \in table : row_number(q, table) >= 2}}

\* remove_duplicates: DELETE ... WHERE stop_id IN (sub-select)
remove_duplicates(db) ==
    [db EXCEPT !.stops_joined =
        {r \in db.stops_joined : r.stop_id \notin DuplicateIds(db.stops_joined)}]

Like(weather_type, word) == \E i \in 1..Len(weather_type) : weather_type[i] = word

\* the WHEN conditions of update_precip in their order, each with its THEN
PrecipBranches(weather_type, precipitation, temperature) ==
    <<[when |-> weather_type = <<>> /\ precipitation = 0, then |-> "None"],
      [when |-> Like(weather_type, "Snow") /\ Like(weather_type, "Rain"), then |-> "Snow"],
      [when |-> Like(weather_type, "Snow") /\ ~Like(weather_type, "Rain"), then |-> "Snow"],
      [when |-> Like(weather_type, "Rain") /\ ~Like(weather_type, "Snow"), then |-> "Rain"],
      [when |-> weather_type = <<>> /\ precipitation > 0 /\ temperature >= 32, then |-> "Rain"],
      [when |-> weather_type = <<>> /\ precipitation > 0 /\ temperature < 32, then |-> "Snow"]>>

\* the CASE with the rain marker looked at before the snow marker
PrecipCaseRainFirst(weather_type, precipitation, temperature) ==
    IF weather_type = <<>> /\ precipitation = 0 THEN "None"
    ELSE IF Like(weather_type, "Rain") THEN "Rain"
    ELSE IF Like(weather_type, "Snow") THEN "Snow"
    ELSE IF weather_type = <<>> /\ precipitation > 0 /\ temperature >= 32 THEN "Rain"
    ELSE IF weather_type = <<>> /\ precipitation > 0 /\ temperature < 32 THEN "Snow"
    ELSE "NULL"

\* the CASE of update_precip; the first branch that holds decides, and there
\* is no ELSE
PrecipCase(weather_type, precipitation, temperature) ==
    IF weather_type = <<>> /\ precipitation = 0 THEN "None"
    ELSE IF Like(weather_type, "Snow") /\ Like(weather_type, "Rain") THEN "Snow"
    ELSE IF Like(weather_type, "Snow") /\ ~Like(weather_type, "Rain") THEN "Snow"
    ELSE IF Like(weather_type, "Rain") /\ ~Like(weather_type, "Snow") THEN "Rain"
    ELSE IF weather_type = <<>> /\ precipitation > 0 /\ temperature >= 32 THEN "Rain"
    ELSE IF weather_type = <<>> /\ precipitation > 0 /\ temperature < 32 THEN "Snow"
    ELSE "NULL"

\* update_precip: every row is updated (WHERE weather_type IS NOT NULL holds
\* for every row: the CSV reader hands the store a string for it)
update_precip(db) ==
    [db EXCEPT !.stops_joined =
        {[r EXCEPT !.precip_type =
              PrecipCase(r.weather_type, r.precipitation, r.temperature)] :
            r \in db.stops_joined}]

\* the three tables as one value
Db == [stops |-> stops, weather_hourly |-> weather_hourly, stops_joined |-> stops_joined]

SetDb(db) ==
    /\ stops' = db.stops
    /\ weather_hourly' = db.weather_hourly
    /\ stops_joined' = db.stops_joined

(***************************************************************************)
(* ETL_previous_day_weather_data and update_table                           *)
(*                                                                          *)
(* An answer of the weather API is an HTTP error status, a failed           *)
(* connection, or a CSV whose k-th row is the observation of hour k-1.  A   *)
(* numeric cell left empty is read as NaN; an empty Weather Type is written *)
(* back as '' (<<>>).                                                       *)
(***************************************************************************)
NaN == -9999                    \* np.nan in a numeric column

\* two of the entries of locations_urlstring / locations_filestring
Locations == <<"Boston,MA", "Manhattan,NY">>
Filename(location) == IF location = "Boston,MA" THEN "Boston_MA" ELSE "Manhattan_NY"

\* line 171: full_weather['Address'].str.replace(',', ', ')
Address(location) == IF location = "Boston,MA" THEN "Boston, MA" ELSE "Manhattan, NY"

Cells(t, p, c, w) ==
    [temperature |-> t, precipitation |-> p, cloud_cover |-> c, weather_type |-> w,
     bad |-> FALSE]

\* the cells of an hourly row: complete, without a weather type, or with
\* numeric cells missing
HourKinds ==
    {Cells(50, 0, 10, <<"Rain">>), Cells(50, 0, 10, <<>>), Cells(NaN, 0, 10, <<>>),
     Cells(50, NaN, 10, <<>>), Cells(50, 0, NaN, <<>>), Cells(NaN, NaN, NaN, <<>>)}

Ok(rows) == [status |-> "ok", rows |-> rows]
HTTPError == [status |-> "HTTPError", rows |-> <<>>]
ConnectionError == [status |-> "ConnectionError", rows |-> <<>>]

\* a full day in which the hours 03:00 and 17:00 lack the cloud cover
Day22of24 ==
    Ok([k \in 1..HoursPerDay |->
           IF k \in {4, 18} THEN Cells(50, 0, NaN, <<>>) ELSE Cells(50, 0, 10, <<>>)])

WxResponses ==
    {HTTPError, ConnectionError, Day22of24} \cup {Ok(rows) : rows \in SeqsUpTo(HourKinds, MaxHours)}

DropNaAnyColumn(rows) ==
    LET keep == [k \in 1..Len(rows) |->
                    /\ rows[k].temperature # NaN
                    /\ rows[k].precipitation # NaN
                    /\ rows[k].cloud_cover # NaN
                    /\ rows[k].weather_type # <<>>]
    IN  SelectIdx(keep, 1, Len(rows))

\* line 173: the index of the rows that have Temperature, Precipitation and
\* Cloud Cover
drop_na_index(rows) ==
    LET keep == [k \in 1..Len(rows) |->
                    /\ rows[k].temperature # NaN
                    /\ rows[k].precipitation # NaN
                    /\ rows[k].cloud_cover # NaN]
    IN  SelectIdx(keep, 1, Len(rows))

\* lines 170-177: the processed CSV file of a location; the answer holds the
\* hours of the day asked for (line 151)
WeatherCsv(location, rows, yesterday) ==
    LET ix == drop_na_index(rows)
    IN  [k \in 1..Len(ix) |->
            [location |-> Address(location),
             obs_datetime |-> yesterday * HoursPerDay + ix[k] - 1,
             temperature |-> rows[ix[k]].temperature,
             precipitation |-> rows[ix[k]].precipitation,
             cloud_cover |-> rows[ix[k]].cloud_cover,
             weather_type |-> rows[ix[k]].weather_type,
             bad |-> rows[ix[k]].bad]]

\* INSERT INTO weather_hourly ... ON CONFLICT DO NOTHING
insert_into_weather(visible, w, bad) ==
    IF bad THEN "error"
    ELSE IF weather_conflict(visible, w) THEN "nothing"
    ELSE "inserted"

WeatherRow(row) ==
    [location |-> row.location, obs_datetime |-> row.obs_datetime,
     temperature |-> row.temperature, precipitation |-> row.precipitation,
     cloud_cover |-> row.cloud_cover, weather_type |-> row.weather_type]

RECURSIVE UpdateTableLoop(_, _, _, _)
\* update_table, lines 171-176 from row i on; conn.rollback() discards the
\* rows inserted since the transaction began
UpdateTableLoop(committed, pending, rows, i) ==
    IF i > Len(rows) THEN pending
    ELSE LET w   == WeatherRow(rows[i])
             out == insert_into_weather(committed \cup pending, w, rows[i].bad)
         IN  IF out = "error" THEN UpdateTableLoop(committed, {}, rows, i + 1)
             ELSE IF out = "inserted"
             THEN UpdateTableLoop(committed, pending \cup {w}, rows, i + 1)
             ELSE UpdateTableLoop(committed, pending, rows, i + 1)

\* update_table with insert_into_weather: the loop, then conn.commit()
update_table(committed, rows) == committed \cup UpdateTableLoop(committed, {}, rows, 1)

RECURSIVE WeatherInserts(_, _, _, _)
\* lines 179-181 from location k on: the table and the lines logged, the
\* locations whose request failed being skipped (line 165)
WeatherInserts(table, resps, yesterday, k) ==
    IF k > Len(Locations) THEN [table |-> table, log |-> <<>>]
    ELSE IF resps[k].status # "ok" THEN WeatherInserts(table, resps, yesterday, k + 1)
    ELSE LET csv  == WeatherCsv(Locations[k], resps[k].rows, yesterday)
             rest == WeatherInserts(update_table(table, csv), resps, yesterday, k + 1)
         IN  [table |-> rest.table,
              log   |-> <<[filename |-> Filename(Locations[k]), rows_kept |-> Len(csv),
                          of |-> HoursPerDay]>> \o rest.log]

ETL_weather_raising_on_http_error(table, resps, yesterday) ==
    IF \E k \in 1..Len(Locations) : resps[k].status # "ok"
    THEN [raised |-> TRUE, table |-> table, log |-> <<>>]
    ELSE LET res == WeatherInserts(table, resps, yesterday, 1)
         IN  [raised |-> FALSE, table |-> res.table, log |-> res.log]

\* ETL_previous_day_weather_data: requests.get raises when the connection
\* fails, before anything is inserted; an HTTP error status skips the location
ETL_previous_day_weather_data(table, resps, yesterday) ==
    IF \E k \in 1..Len(Locations) : resps[k].status = "ConnectionError"
    THEN [raised |-> TRUE, table |-> table, log |-> <<>>]
    ELSE LET res == WeatherInserts(table, resps, yesterday, 1)
         IN  [raised |-> FALSE, table |-> res.table, log |-> res.log]

InitWx ==
    /\ pc = "loaded"
    /\ responses \in [1..Len(Locations) -> WxResponses]
    /\ weather_hourly = {} /\ stops_joined = {} /\ db_error = FALSE /\ runs = 0 /\ settled = {}
    /\ query_df = {} /\ wx_log = <<>> /\ today = SchedDay + 1
    /\ IdlePC /\ IdleRaw /\ IdleStore /\ IdleUpd
    /\ IdleFetch /\ IdleApp

WeatherETLCall ==
    /\ pc = "loaded"
    /\ LET res == ETL_previous_day_weather_data(weather_hourly, responses, today - 1)
       IN  /\ weather_hourly' = res.table
           /\ wx_log' = res.log
           /\ pc' = IF res.raised THEN "raised" ELSE "returned"
    /\ UNCHANGED <<appVars, fetchVars, pcVars, rawVars, stopVars, updVars, stops_joined, db_error, runs, settled,
                   query_df, responses, today>>

NextWx == WeatherETLCall

SpecWx == InitWx /\ [][NextWx]_vars

(***************************************************************************)
(* cron_etl_job and the dashboard                                           *)
(*                                                                          *)
(* The job runs in a thread of the scheduler, inside the process that       *)
(* serves the dashboard; a dashboard query opens its own connection and     *)
(* reads what is committed.  pc is the step the job is about to take.       *)
(***************************************************************************)
\* execute_command without conn.rollback(): a command that raises at its last
\* statement keeps what its earlier statements did
execute_command_without_rollback(db, after, raised) ==
    IF raised THEN [after EXCEPT !.weather_hourly = db.weather_hourly] ELSE after

\* execute_command: the command and conn.commit(), or, when the store raises,
\* the log line and conn.rollback()
execute_command(db, after, raised) == IF raised THEN db ELSE after

\* cron_etl_job with every step in a try block of its own: the job goes on
\* after a step that raised
cron_etl_job_catching(step, raised) == IF step = "idle" THEN "weather" ELSE "join"

\* cron_etl_job: the step that follows the step the job has just taken; an
\* exception of a step is not caught and ends the run
cron_etl_job(step, raised) ==
    IF raised THEN "idle"
    ELSE IF step = "idle" THEN "weather" ELSE "join"

\* the processed files of a run: stops of train 66 at BOS, origin date
\* SchedDay, with an actual time of 00:00 on that day or, past midnight, on
\* the day after
JobRows == [train_num : {66}, station_code : {"BOS"}, origin_date : {SchedDay},
            act_hour : {SchedDay * HoursPerDay, (SchedDay + 1) * HoursPerDay},
            bad : {FALSE}]
JobFiles == SeqsUpTo(JobRows, 1)

\* the answers of a run: Boston reports the hour 00:00 or nothing, or fails
JobHourKinds == {Cells(50, 0, 10, <<>>), Cells(50, 0, 10, <<"Fog">>)}
JobResponses ==
    {<<b, HTTPError>> :
        b \in {HTTPError, ConnectionError} \cup {Ok(rows) : rows \in SeqsUpTo(JobHourKinds, 1)}}

InitJob ==
    /\ pc = "idle"
    /\ stops = {} /\ stop_seq = 1
    /\ IdleJob
    /\ IdlePC /\ IdleRaw /\ IdleUpd
    /\ IdleFetch /\ IdleApp

\* ETL_previous_day_train_data: update_trains for the arrivals, then for the
\* departures
TrainETL(arrive, depart) ==
    /\ pc = "idle" /\ runs < MaxRuns /\ SchedulerRunning
    /\ LET arr == update_trains(stops, stop_seq, "Arrival", arrive)
           dep == update_trains(arr.table, arr.seq, "Departure", depart)
       IN  stops' = dep.table /\ stop_seq' = dep.seq
    /\ runs' = runs + 1
    /\ pc' = cron_etl_job(pc, FALSE)
    /\ UNCHANGED <<appVars, fetchVars, pcVars, rawVars, updVars, weather_hourly, stops_joined, db_error, settled,
                   query_df, responses, wx_log, today>>

\* ETL_previous_day_train_data raises before its first insert (a request, the
\* parsing or process_columns raised): the run ends there
TrainETLRaises ==
    /\ pc = "idle" /\ runs < MaxRuns /\ SchedulerRunning
    /\ runs' = runs + 1
    /\ pc' = cron_etl_job(pc, TRUE)
    /\ UNCHANGED <<appVars, fetchVars, pcVars, rawVars, stopVars, updVars, weather_hourly, stops_joined,
                   db_error, settled, query_df, responses, wx_log, today>>

WeatherETL(resps) ==
    /\ pc = "weather"
    /\ LET res == ETL_previous_day_weather_data(weather_hourly, resps, today - 1)
       IN  /\ weather_hourly' = res.table
           /\ wx_log' = res.log
           /\ pc' = cron_etl_job(pc, res.raised)
    /\ responses' = resps
    /\ UNCHANGED <<appVars, fetchVars, pcVars, rawVars, stopVars, updVars, stops_joined, db_error, runs, settled,
                   query_df, today>>

\* join_datasets, line 216
ExecuteJoin(raised) ==
    /\ pc = "join"
    /\ SetDb(execute_command(Db, join_command(Db), raised))
    /\ db_error' = raised
    /\ pc' = "dedup"
    /\ UNCHANGED <<appVars, fetchVars, pcVars, rawVars, stop_seq, updVars, runs, settled, query_df, responses, wx_log, today>>

\* join_datasets, line 217
ExecuteRemoveDuplicates(raised) ==
    /\ pc = "dedup"
    /\ SetDb(execute_command(Db, remove_duplicates(Db), raised))
    /\ db_error' = raised
    /\ pc' = "precip"
    /\ UNCHANGED <<appVars, fetchVars, pcVars, rawVars, stop_seq, updVars, runs, settled, query_df, responses, wx_log, today>>

\* join_datasets, line 218
ExecuteUpdatePrecip(raised) ==
    /\ pc = "precip"
    /\ SetDb(execute_command(Db, update_precip(Db), raised))
    /\ db_error' = raised
    /\ pc' = "idle"
    /\ settled' = stops_joined'
    /\ UNCHANGED <<appVars, fetchVars, pcVars, rawVars, stop_seq, updVars, runs, query_df, responses, wx_log, today>>

\* connect_and_query from a callback of the dashboard: a SELECT over
\* stops_joined on a connection of its own
DashboardQuery ==
    /\ query_df' = stops_joined
    /\ UNCHANGED <<appVars, fetchVars, pc, pcVars, rawVars, stopVars, updVars, weather_hourly, stops_joined,
                   db_error, runs, settled, responses, wx_log, today>>

\* the clock passes midnight
Midnight ==
    /\ today < SchedDay + MaxDays
    /\ today' = today + 1
    /\ UNCHANGED <<appVars, fetchVars, pc, pcVars, rawVars, stopVars, updVars, weather_hourly, stops_joined,
                   db_error, runs, settled, query_df, responses, wx_log>>

NextJob ==
    \/ \E arrive \in JobFiles, depart \in JobFiles : TrainETL(arrive, depart)
    \/ TrainETLRaises
    \/ \E resps \in JobResponses : WeatherETL(resps)
    \/ \E raised \in BOOLEAN : ExecuteJoin(raised)
    \/ \E raised \in BOOLEAN : ExecuteRemoveDuplicates(raised)
    \/ \E raised \in BOOLEAN : ExecuteUpdatePrecip(raised)
    \/ DashboardQuery
    \/ Midnight

SpecJob == InitJob /\ [][NextJob]_vars

(***************************************************************************)
(* The start of app.py: the statements of the module, in their order, with  *)
(* the thread of the scheduler beside them once it is started               *)
(***************************************************************************)
InitBoot ==
    /\ pc = "idle"
    /\ stops = {} /\ stop_seq = 1
    /\ IdleJob
    /\ IdlePC /\ IdleRaw /\ IdleUpd /\ IdleFetch
    /\ n_clicks = None /\ alert_msg = NoAlert /\ figure = DefaultRoute
    /\ callback = "not called" /\ controls = DefaultControls /\ sent_query = NoQuery
    /\ env \in SUBSET EnvNames /\ boot = "import utils" /\ served = 0
    /\ IdlePages

\* a statement of the module: the main thread moves on
Statement(next) ==
    /\ boot' = next
    /\ UNCHANGED <<pc, n_clicks, alert_msg, figure, callback, controls, sent_query, env, served, query_logs,
                   pageVars, fetchVars,
                   pcVars, rawVars, stopVars, updVars, jobVars>>

\* app.py line 22: from utils import ..., which runs the assert of utils.py
ImportUtils ==
    /\ boot = "import utils"
    /\ Statement(IF "DATABASE_URL" \in env THEN "import weather_ETL"
                 ELSE "AssertionError: database URL is not set!")

\* app.py lines 25-26: trains_ETL has no assert; weather_ETL asserts VC_TOKEN
ImportWeatherETL ==
    /\ boot = "import weather_ETL"
    /\ Statement(IF "VC_TOKEN" \in env THEN "scheduler.start"
                 ELSE "AssertionError: empty weather API token!")

\* app.py lines 32-72: the Dash object, the scheduler, the job at hour 6, and
\* scheduler.start()
SchedulerStart ==
    /\ boot = "scheduler.start"
    /\ Statement("assert MAPBOX_TOKEN")

\* app.py line 77
AssertMapboxToken ==
    /\ boot = "assert MAPBOX_TOKEN"
    /\ Statement(IF "MAPBOX_TOKEN" \in env THEN "run_server"
                 ELSE "AssertionError: empty token")

\* app.py lines 78-1232: the rest of the module and app.run_server
RunServer ==
    /\ boot = "run_server"
    /\ Statement("serving")

\* the server answers a request for a page
ServePage ==
    /\ boot = "serving" /\ served < MaxServed
    /\ served' = served + 1
    /\ UNCHANGED <<pc, n_clicks, alert_msg, figure, callback, controls, sent_query, env, boot, query_logs,
                   pageVars, fetchVars,
                   pcVars, rawVars, stopVars, updVars, jobVars>>

NextBoot ==
    \/ ImportUtils
    \/ ImportWeatherETL
    \/ SchedulerStart
    \/ AssertMapboxToken
    \/ RunServer
    \/ ServePage
    \/ \E arrive \in JobFiles, depart \in JobFiles : TrainETL(arrive, depart)
    \/ TrainETLRaises
    \/ \E resps \in JobResponses : WeatherETL(resps)
    \/ \E raised \in BOOLEAN : ExecuteJoin(raised)
    \/ \E raised \in BOOLEAN : ExecuteRemoveDuplicates(raised)
    \/ \E raised \in BOOLEAN : ExecuteUpdatePrecip(raised)

SpecBoot == InitBoot /\ [][NextBoot]_vars

(***************************************************************************)
(* update_precip on its own: a table as the join leaves it, then the        *)
(* command, once or twice                                                   *)
(***************************************************************************)
WeatherTypes == {<<>>, <<"Rain">>, <<"Snow">>, <<"Rain", "Snow">>, <<"Fog">>}
Precipitations == {0, 1}
Temperatures == {31, 32}

JoinedRow(id, w, p, t) ==
    [stop_id |-> id, arrival_or_departure |-> "Arrival", train_num |-> 66 + id,
     station_code |-> "BOS", origin_date |-> SchedDay,
     act_hour |-> SchedDay * HoursPerDay,
     temperature |-> t, precipitation |-> p, cloud_cover |-> 10, weather_type |-> w,
     precip_type |-> "NULL"]

\* tables of n rows with stop_id 1..n
JoinedTables(n) ==
    {{JoinedRow(id, f[id][1], f[id][2], f[id][3]) : id \in 1..n} :
        f \in [1..n -> WeatherTypes \X Precipitations \X Temperatures]}

InitPrecip ==
    /\ pc = "precip"
    /\ stops_joined \in UNION {JoinedTables(n) : n \in 1..MaxJoined}
    /\ weather_hourly = {} /\ db_error = FALSE /\ runs = 0 /\ settled = {}
    /\ query_df = {} /\ responses = <<>> /\ wx_log = <<>> /\ today = SchedDay + 1
    /\ IdlePC /\ IdleRaw /\ IdleStore /\ IdleUpd
    /\ IdleFetch /\ IdleApp

UpdatePrecip ==
    /\ pc \in {"precip", "updated"}
    /\ SetDb(execute_command(Db, update_precip(Db), FALSE))
    /\ pc' = IF pc = "precip" THEN "updated" ELSE "updated twice"
    /\ UNCHANGED <<appVars, fetchVars, pcVars, rawVars, stop_seq, updVars, db_error, runs, settled, query_df,
                   responses, wx_log, today>>

NextPrecip == UpdatePrecip

SpecPrecip == InitPrecip /\ [][NextPrecip]_vars

(***************************************************************************)
(* generate_query: the texts it builds and the query it sends               *)
(*                                                                          *)
(* A text is the sequence of its pieces: "(", ")", ",", " " (one character  *)
(* each) and quoted names such as "'Monday'".                               *)
(***************************************************************************)
day_names == <<"Sunday", "Monday", "Tuesday", "Wednesday", "Thursday", "Friday", "Saturday">>

\* a name between single quotes
Quote(name) ==
    CASE name = "Sunday" -> "'Sunday'"       [] name = "Monday" -> "'Monday'"
      [] name = "Tuesday" -> "'Tuesday'"     [] name = "Wednesday" -> "'Wednesday'"
      [] name = "Thursday" -> "'Thursday'"   [] name = "Friday" -> "'Friday'"
      [] name = "Saturday" -> "'Saturday'"   [] name = "None" -> "'None'"
      [] name = "Rain" -> "'Rain'"           [] name = "Snow" -> "'Snow'"
      [] name = "Northbound" -> "'Northbound'"
      [] name = "Southbound" -> "'Southbound'"

QuotedNames == {"Sunday", "Monday", "Tuesday", "Wednesday", "Thursday", "Friday", "Saturday",
                "None", "Rain", "Snow", "Northbound", "Southbound"}

\* the name a quoted literal stands for in the query
Unquote(literal) == CHOOSE name \in QuotedNames : Quote(name) = literal

\* output[0:-1]: the text without its last character
DropLastOne(output) == IF Len(output) < 1 THEN <<>> ELSE SubSeq(output, 1, Len(output) - 1)

\* output[0:-2]: the text without its last two characters
DropLastTwo(output) == IF Len(output) < 2 THEN <<>> ELSE SubSeq(output, 1, Len(output) - 2)

RECURSIVE get_days_loop(_, _)
\* get_days, lines 244-246 from index i (0 is Sunday) on
get_days_loop(days_selected, i) ==
    IF i >= Len(day_names) THEN <<>>
    ELSE (IF i \in days_selected THEN <<Quote(day_names[i + 1]), ",", " ">> ELSE <<>>)
         \o get_days_loop(days_selected, i + 1)

get_days(days_selected) ==
    DropLastTwo(<<"(">> \o get_days_loop(days_selected, 0)) \o <<")">>

RECURSIVE get_precip_types_loop(_, _)
\* get_precip_types, lines 256-257 from element k of the list on
get_precip_types_loop(precip_selected, k) ==
    IF k > Len(precip_selected) THEN <<>>
    ELSE <<Quote(precip_selected[k]), ",", " ">> \o get_precip_types_loop(precip_selected, k + 1)

get_precip_types(precip_selected) ==
    DropLastTwo(<<"(">> \o get_precip_types_loop(precip_selected, 1)) \o <<")">>

\* the value of direction-selector is compared with the bare name
get_sort_from_direction(direction) ==
    IF direction = "Northbound" THEN "nb_stop_num" ELSE "sb_stop_num"

\* whether the store parses the text as the list of an IN: "(", quoted names
\* separated by "," " ", ")"
WellFormedList(text) ==
    /\ Len(text) >= 3 /\ (Len(text) - 2) % 3 = 1
    /\ text[1] = "(" /\ text[Len(text)] = ")"
    /\ \A k \in 2..Len(text) - 1 :
          CASE (k - 2) % 3 = 0 -> text[k] \in {Quote(name) : name \in QuotedNames}
            [] (k - 2) % 3 = 1 -> text[k] = ","
            [] (k - 2) % 3 = 2 -> text[k] = " "

ListValues(text) == {Unquote(text[k]) : k \in {j \in 2..Len(text) - 1 : (j - 2) % 3 = 0}}

\* CAST(numeric AS INTEGER) of num/den: to the nearest integer, a half away
\* from zero
CastInteger(num, den) ==
    IF num >= 0 THEN (2 * num + den) \div (2 * den)
    ELSE -1 * ((2 * (-1 * num) + den) \div (2 * den))

RECURSIVE SumDelay(_)
SumDelay(rows) ==
    IF rows = {} THEN 0
    ELSE LET r == CHOOSE q \in rows : TRUE
         IN  r.timedelta_from_sched + SumDelay(rows \ {r})

\* the column named by {sort_stop_num}
SortColumn(r, sort_stop_num) ==
    IF sort_stop_num = "nb_stop_num" THEN r.nb_stop_num ELSE r.sb_stop_num

\* the WHERE of the query; precip_type NULL is IN no list
Where(table, direction, selected_days, weather_type) ==
    {r \in table : /\ r.direction = Unquote(direction)
                   /\ r.sched_arr_dep_week_day \in ListValues(selected_days)
                   /\ r.precip_type \in ListValues(weather_type)}

GroupOf(r, sort_stop_num) ==
    <<r.station_code, r.direction, SortColumn(r, sort_stop_num), r.arrival_or_departure>>

\* GROUP BY and the SELECT list: one row for each group
Aggregate(rows, sort_stop_num) ==
    {LET members == {r \in rows : GroupOf(r, sort_stop_num) = g}
     IN  [Direction |-> g[2], Station |-> g[1], StopNumber |-> g[3],
          ArrivalOrDeparture |-> g[4],
          AverageDelay |-> CastInteger(SumDelay(members), Cardinality(members)),
          NumRecords |-> Cardinality(members)] :
        g \in {GroupOf(r, sort_stop_num) : r \in rows}}

\* ORDER BY {sort_stop_num} ASC: every order of the rows in which the stop
\* number does not decrease
Ordered(rows) ==
    {q \in [1..Cardinality(rows) -> rows] :
        /\ \A i, j \in 1..Cardinality(rows) : i # j => q[i] # q[j]
        /\ \A i, j \in 1..Cardinality(rows) : i < j => q[i].StopNumber <= q[j].StopNumber}

\* the frames the query of lines 336-354 can return
Query(table, direction, selected_days, weather_type, sort_stop_num) ==
    Ordered(Aggregate(Where(table, direction, selected_days, weather_type), sort_stop_num))

(***************************************************************************)
(* get_colors and the callback generate_query                               *)
(***************************************************************************)
upper_bound == 20

\* get_continuous_color((upper_bound - td_minutes) / upper_bound): the first
\* color of the scale at or below 0, the last at or above 1, or a color
\* between two of the scale
Color(td_minutes) ==
    IF upper_bound - td_minutes <= 0 THEN [scale |-> "first", at |-> 0]
    ELSE IF upper_bound - td_minutes >= upper_bound THEN [scale |-> "last", at |-> upper_bound]
    ELSE [scale |-> "between", at |-> upper_bound - td_minutes]

\* get_colors: for each station of the frame the row its loop looks up is the
\* 'Arrival' row at the terminal of the direction and the 'Departure' row
\* elsewhere; .values[0] raises IndexError when there is no such row, as
\* .iloc[0] does on an empty frame.  The series it returns are indexed by
\* query_df['Station']
get_colors(frame) ==
    LET direction       == frame[1].Direction
        arrival_station == IF direction = "Northbound" THEN "BOS" ELSE "WAS"
        arr_or_dep(k)   == IF frame[k].Station # arrival_station
                           THEN "Departure" ELSE "Arrival"
        found(k)        == {i \in 1..Len(frame) :
                               /\ frame[i].Station = frame[k].Station
                               /\ frame[i].ArrivalOrDeparture = arr_or_dep(k)}
        first(k)        == CHOOSE i \in found(k) : \A j \in found(k) : i <= j
    IN  IF Len(frame) = 0 \/ \E k \in 1..Len(frame) : found(k) = {}
        THEN [raised |-> TRUE]
        ELSE [raised |-> FALSE,
              color_group_key |-> IF direction = "Northbound"
                                  THEN "NB Station Group" ELSE "SB Station Group",
              colors |-> {<<frame[k].Station, Color(frame[first(k)].AverageDelay)>> :
                             k \in 1..Len(frame)},
              delays |-> [k \in 1..Len(frame) |-> frame[first(k)].AverageDelay],
              counts |-> [k \in 1..Len(frame) |-> frame[first(k)].NumRecords]]

RECURSIVE SumSeq(_, _)
SumSeq(seq, k) == IF k > Len(seq) THEN 0 ELSE seq[k] + SumSeq(seq, k + 1)

\* station_info: the position of a station on the way north and on the way
\* south
nb_stop_num(station_code) == IF station_code = "BOS" THEN 2 ELSE 1
sb_stop_num(station_code) == IF station_code = "BOS" THEN 1 ELSE 2

\* the columns of a stops_joined row the query reads
DashRow(direction, station_code, arr_or_dep, td, week_day, precip_type) ==
    [direction |-> direction, station_code |-> station_code,
     arrival_or_departure |-> arr_or_dep, timedelta_from_sched |-> td,
     sched_arr_dep_week_day |-> week_day, precip_type |-> precip_type,
     nb_stop_num |-> nb_stop_num(station_code), sb_stop_num |-> sb_stop_num(station_code),
     train_num |-> IF direction = "Northbound" THEN 66 ELSE 67, origin_date |-> SchedDay]

\* rows of a Monday without precipitation, and rows of another day, of rain
\* and without a precipitation type
DashRows ==
    {DashRow("Northbound", st, ad, td, "Monday", "None") :
        st \in Stations, ad \in ArrDep, td \in {-3, 5}} \cup
    {DashRow("Southbound", st, "Departure", 5, "Monday", "None") : st \in Stations} \cup
    {DashRow("Northbound", "NYP", "Departure", 5, "Tuesday", "None"),
     DashRow("Northbound", "NYP", "Departure", 5, "Monday", "Rain"),
     DashRow("Northbound", "NYP", "Departure", 5, "Monday", "NULL")}

\* stops_joined holding the given rows, with stop_id 1, 2, ...
DashTable(rows) == {rows[k] @@ [stop_id |-> k] : k \in 1..Len(rows)}

\* the values the controls can hold: direction-selector, days-of-week-checkboxes
\* (1 is Monday), weather-type
DirectionValues == {"'Northbound'", "'Southbound'"}
DaysValues == {{}, {1}, {1, 2}}
WeatherTypeValues == {<<>>, <<"None">>, <<"None", "Rain">>}

\* connect_and_query with update_logs called whatever is_primary is
connect_and_query_logging(logs, query, is_primary) == Append(logs, query)

\* connect_and_query, as far as it writes: the query_logs table after the
\* call; update_logs inserts the query only when is_primary is set
connect_and_query(logs, query, is_primary) == IF is_primary THEN Append(logs, query) ELSE logs

shape_unchecked(frame) == TRUE

\* line 358: assert query_df.shape[0] > 0
shape_asserted(frame) == Len(frame) > 0

InitDash ==
    /\ pc = "serving"
    /\ stops_joined \in {DashTable(rows) : rows \in SeqsUpTo(DashRows, MaxAgg)}
    /\ query_df = <<>>
    /\ weather_hourly = {} /\ db_error = FALSE /\ runs = 0 /\ settled = {}
    /\ responses = <<>> /\ wx_log = <<>> /\ today = SchedDay + 1
    /\ IdleApp /\ IdleFetch /\ IdlePC /\ IdleRaw /\ IdleStore /\ IdleUpd

\* the call Dash makes when the page is laid out: n_clicks is None (line 330)
InitialCall ==
    /\ pc = "serving" /\ n_clicks = None /\ callback = "not called"
    /\ callback' = "PreventUpdate"
    /\ UNCHANGED <<pc, n_clicks, alert_msg, figure, controls, sent_query, env, boot, served, query_logs,
                   pageVars, fetchVars, pcVars, rawVars, stopVars, updVars, jobVars>>

\* a click on send-query-button: generate_query with the values of the
\* controls.  A callback that raises leaves both outputs as they are
GenerateQuery(direction, days, weather_type) ==
    /\ pc = "serving" /\ callback # "not called" /\ n_clicks < MaxClicks
    /\ n_clicks' = n_clicks + 1
    /\ controls' = [direction |-> direction, days |-> days, weather_type |-> weather_type]
    /\ query_logs' = connect_and_query(query_logs, "query", FALSE)
    /\ sent_query' = [direction |-> direction, selected_days |-> get_days(days),
                      weather_type |-> get_precip_types(weather_type),
                      sort_stop_num |-> get_sort_from_direction(direction)]
    /\ LET selected_days == get_days(days)
           precip_types  == get_precip_types(weather_type)
           sort_stop_num == get_sort_from_direction(direction)
       IN  IF ~WellFormedList(selected_days) \/ ~WellFormedList(precip_types)
           THEN /\ callback' = "DatabaseError"
                /\ UNCHANGED <<query_df, alert_msg, figure>>
           ELSE \E frame \in Query(stops_joined, direction, selected_days, precip_types,
                                   sort_stop_num) :
                   /\ query_df' = frame
                   /\ IF ~shape_asserted(frame)
                      THEN /\ callback' = "PreventUpdate"
                           /\ UNCHANGED <<alert_msg, figure>>
                      ELSE LET got == get_colors(frame)
                           IN  IF got.raised
                               THEN /\ callback' = "IndexError"
                                    /\ UNCHANGED <<alert_msg, figure>>
                               ELSE /\ callback' = "returned"
                                    /\ alert_msg' = [kind |-> "success",
                                                     query_size |-> SumSeq(got.counts, 1)]
                                    /\ figure' = [kind |-> "query",
                                                  color_group_key |-> got.color_group_key,
                                                  colors |-> got.colors,
                                                  delays |-> got.delays,
                                                  counts |-> got.counts]
    /\ UNCHANGED <<pc, env, boot, served, pageVars, fetchVars, pcVars, rawVars, stopVars, updVars,
                   weather_hourly, stops_joined, db_error, runs, settled, responses, wx_log, today>>

NextDash ==
    \/ InitialCall
    \/ \E direction \in DirectionValues, days \in DaysValues,
          weather_type \in WeatherTypeValues : GenerateQuery(direction, days, weather_type)

SpecDash == InitDash /\ [][NextDash]_vars

(***************************************************************************)
(* generate_query with the controls set to any selection of                 *)
(* days-of-week-checkboxes and to selections of weather-type in several     *)
(* orders, on a table of two rows                                           *)
(***************************************************************************)
\* the values of days-of-week-checkboxes: any of the indices of day_names
AllDaysValues == SUBSET (0..(Len(day_names) - 1))
\* values of weather-type: the categories ticked, in the order of ticking
PrecipLists == {<<>>, <<"None">>, <<"Rain", "None">>, <<"None", "Rain", "Snow">>,
                <<"Snow", "Rain", "None">>}

ListsTable ==
    DashTable(<<DashRow("Northbound", "NYP", "Departure", 5, "Monday", "None"),
                DashRow("Northbound", "BOS", "Arrival", -3, "Sunday", "Rain")>>)

\* the controls as the user has set them before clicking
InitLists ==
    /\ pc = "serving"
    /\ stops_joined = ListsTable
    /\ query_df = <<>>
    /\ weather_hourly = {} /\ db_error = FALSE /\ runs = 0 /\ settled = {}
    /\ responses = <<>> /\ wx_log = <<>> /\ today = SchedDay + 1
    /\ n_clicks = None /\ alert_msg = NoAlert /\ figure = DefaultRoute
    /\ callback = "not called" /\ sent_query = NoQuery
    /\ controls \in [direction : DirectionValues, days : AllDaysValues,
                     weather_type : PrecipLists]
    /\ env = EnvNames /\ boot = "serving" /\ served = 0
    /\ IdlePages /\ IdleFetch /\ IdlePC /\ IdleRaw /\ IdleStore /\ IdleUpd

\* the State arguments of the callback are the values the controls hold
NextLists ==
    \/ InitialCall
    \/ GenerateQuery(controls.direction, controls.days, controls.weather_type)

SpecLists == InitLists /\ [][NextLists]_vars

(***************************************************************************)
(* The other callbacks of app.py that query: show_step2 and                 *)
(* enable_send_query, and display_page, beside generate_query               *)
(***************************************************************************)
PageRows ==
    {DashRow("Northbound", "NYP", "Departure", 5, "Monday", "None"),
     DashRow("Northbound", "BOS", "Arrival", 5, "Monday", "None"),
     DashRow("Southbound", "NYP", "Departure", 5, "Monday", "None")}

InitPages ==
    /\ pc = "serving"
    /\ stops_joined \in {DashTable(rows) : rows \in SeqsUpTo(PageRows, MaxAgg)}
    /\ query_df = <<>>
    /\ weather_hourly = {} /\ db_error = FALSE /\ runs = 0 /\ settled = {}
    /\ responses = <<>> /\ wx_log = <<>> /\ today = SchedDay + 1
    /\ IdleApp /\ IdleFetch /\ IdlePC /\ IdleRaw /\ IdleStore /\ IdleUpd

\* show_step2: the trains of the date picked; no date is PreventUpdate
ShowStep2(date_value) ==
    /\ pc = "serving"
    /\ IF date_value = None
       THEN UNCHANGED <<query_logs, options>>
       ELSE /\ query_logs' = connect_and_query(query_logs, "avail_trains_query", FALSE)
            /\ options' = {r.train_num : r \in {q \in stops_joined : q.origin_date = date_value}}
    /\ UNCHANGED <<pc, n_clicks, alert_msg, figure, callback, controls, sent_query, env, boot, served, card,
                   layout, fetchVars, pcVars, rawVars, stopVars, updVars, jobVars>>

\* enable_send_query after a click on enhancement-send-query-button with a
\* train picked: the trip of the train on the date, and, when there is one,
\* its history
EnableSendQuery(selected_date, train_num) ==
    /\ pc = "serving" /\ train_num \in options
    /\ LET single_trip_df == {r \in stops_joined :
                                 r.origin_date = selected_date /\ r.train_num = train_num}
           logged         == connect_and_query(query_logs, "single_trip_query", FALSE)
       IN  IF single_trip_df = {}
           THEN /\ query_logs' = logged
                /\ card' = [kind |-> "error_view"]
           ELSE /\ query_logs' = connect_and_query(logged, "historical_query", FALSE)
                /\ card' = [kind |-> "trip_view", train_num |-> train_num]
    /\ UNCHANGED <<pc, n_clicks, alert_msg, figure, callback, controls, sent_query, env, boot, served, options,
                   layout, fetchVars, pcVars, rawVars, stopVars, updVars, jobVars>>

\* display_page: the layout of the path, without a query
DisplayPage(pathname) ==
    /\ pc = "serving"
    /\ layout' = IF pathname \in {"/", "/data1050", "/data1050-app-analysis"}
               THEN pathname ELSE "error_page_layout"
    /\ UNCHANGED <<pc, n_clicks, alert_msg, figure, callback, controls, sent_query, env, boot, served,
                   query_logs, options, card, fetchVars, pcVars, rawVars, stopVars, updVars,
                   jobVars>>

NextPages ==
    \/ InitialCall
    \/ \E direction \in DirectionValues, days \in {{}, {1}} :
          GenerateQuery(direction, days, <<"None">>)
    \/ \E date_value \in {None, SchedDay, SchedDay + 1} : ShowStep2(date_value)
    \/ \E selected_date \in {SchedDay, SchedDay + 1}, train_num \in {66, 67} :
          EnableSendQuery(selected_date, train_num)
    \/ \E pathname \in {"/data1050", "/data1050-app-analysis", "/nowhere"} : DisplayPage(pathname)

SpecPages == InitPages /\ [][NextPages]_vars

(***************************************************************************)
(* retrieve_data, one request at a time                                     *)
(***************************************************************************)
InitFetch ==
    /\ IdleApp
    /\ pc = "fetching"
    /\ req = 1
    /\ outcomes = <<>>
    /\ requested = [i \in 1..Len(Urls) |-> 0]
    /\ fetched = make_dict
    /\ failed_retrievals = <<>>
    /\ url_args = RetrieveArgs /\ urls = Construct(RetrieveArgs)
    /\ IdlePC /\ IdleRaw /\ IdleStore /\ IdleUpd /\ IdleJob

\* lines 133-137 / 139-143 for the URL at hand
Request(outcome) ==
    /\ pc = "fetching" /\ req <= Len(Urls)
    /\ requested' = [requested EXCEPT ![req] = @ + 1]
    /\ outcomes' = Append(outcomes, outcome)
    /\ LET u    == Urls[req]
           data == make_request(outcome)
       IN  IF data = "raises"
           THEN /\ pc' = "raised"
                /\ UNCHANGED <<req, fetched, failed_retrievals>>
           ELSE IF data # "None" /\ u.station \notin DOMAIN fetched[u.kind]
           THEN \* raw_data[kind][station] of line 135 / 141 raises KeyError
                /\ pc' = "KeyError"
                /\ UNCHANGED <<req, fetched, failed_retrievals>>
           ELSE /\ pc' = pc
                /\ req' = req + 1
                /\ IF data # "None"
                   THEN /\ fetched' = [fetched EXCEPT ![u.kind][u.station] = Append(@, req)]
                        /\ UNCHANGED failed_retrievals
                   ELSE /\ failed_retrievals' = Append(failed_retrievals, <<u.station, req>>)
                        /\ UNCHANGED fetched
    /\ UNCHANGED <<appVars, url_args, urls, pcVars, rawVars, stopVars, updVars, jobVars>>

\* lines 144-150: the loops are over, raw_data is returned
ReturnRawData ==
    /\ pc = "fetching" /\ req > Len(Urls)
    /\ pc' = "returned"
    /\ UNCHANGED <<appVars, fetchVars, pcVars, rawVars, stopVars, updVars, jobVars>>

(***************************************************************************)
(* construct_urls on its own: a call with groups of trains and dates        *)
(***************************************************************************)
NorthboundGroups == {<<66>>, <<66, 82>>}
SouthboundGroups == {<<67>>, <<67, 83>>}

InitUrls ==
    /\ pc = "called"
    /\ url_args \in [northbound_trains : SeqsUpTo(NorthboundGroups, MaxGroups),
                     southbound_trains : SeqsUpTo(SouthboundGroups, MaxGroups),
                     start_date : Dates, end_date : Dates]
    /\ urls = <<>>
    /\ req = 0 /\ outcomes = <<>> /\ requested = <<>> /\ fetched = <<>>
    /\ failed_retrievals = <<>>
    /\ IdleApp /\ IdlePC /\ IdleRaw /\ IdleStore /\ IdleUpd /\ IdleJob

ConstructUrls ==
    /\ pc = "called"
    /\ urls' = Construct(url_args)
    /\ pc' = "returned"
    /\ UNCHANGED <<appVars, req, outcomes, requested, fetched, failed_retrievals, url_args, pcVars,
                   rawVars, stopVars, updVars, jobVars>>

NextUrls == ConstructUrls

SpecUrls == InitUrls /\ [][NextUrls]_vars

NextFetch ==
    \/ \E outcome \in Outcomes : Request(outcome)
    \/ ReturnRawData

SpecFetch == InitFetch /\ [][NextFetch]_vars

(***************************************************************************)
(* Claims about process_columns (checked under SpecPC)                      *)
(***************************************************************************)
Parsed(r) == r.sched # NaT /\ r.act # NaT

\* the actual clock time minus the scheduled clock time, in minutes
NaiveDiff(r) == r.act - (r.sched % 1440)

\* the actual clock time placed on the scheduled calendar date
ActOnSchedDate(r) == (r.sched \div 1440) * 1440 + r.act

Returned == pc = "returned"
ReturnedFrame == pc = "returned" /\ ~new_df.raised

InFrame(i) == \E k \in 1..Len(new_df.frame) : new_df.frame[k].idx = i
FrameRow(i) == new_df.frame[CHOOSE k \in 1..Len(new_df.frame) : new_df.frame[k].idx = i]

\* C1: a row whose actual time on the scheduled date is more than 10 hours
\* before the scheduled date-time gets its actual date-time moved one day
\* later and a stored delay of the naive difference plus 1440; a row whose
\* naive difference lies within [-10h, +10h] keeps its actual date-time and
\* its naive delay, whatever the other rows of the frame are.
C1_LateRollover ==
    Returned =>
        \A i \in 1..Len(df) :
            Parsed(df[i]) =>
                /\ NaiveDiff(df[i]) < -600 =>
                      /\ actDate[i] = ActOnSchedDate(df[i]) + 1440
                      /\ (ReturnedFrame /\ InFrame(i)) =>
                             /\ FrameRow(i).actFull = ActOnSchedDate(df[i]) + 1440
                             /\ FrameRow(i).diff = NaiveDiff(df[i]) + 1440
                /\ (NaiveDiff(df[i]) >= -600 /\ NaiveDiff(df[i]) <= 600) =>
                      /\ actDate[i] = ActOnSchedDate(df[i])
                      /\ (ReturnedFrame /\ InFrame(i)) =>
                             /\ FrameRow(i).actFull = ActOnSchedDate(df[i])
                             /\ FrameRow(i).diff = NaiveDiff(df[i])

\* scheduled 23:55 with actual 00:10 is stored as the next day 00:10 with
\* delay +15, next to a row of the same frame left uncorrected at exactly -10h
C1_Witness ==
    /\ ReturnedFrame
    /\ Len(df) = 2
    /\ df[1].sched = SchedDay * 1440 + 1435 /\ df[1].act = 10
    /\ InFrame(1) /\ FrameRow(1).actFull = (SchedDay + 1) * 1440 + 10 /\ FrameRow(1).diff = 15
    /\ df[2].sched = SchedDay * 1440 + 1435 /\ df[2].act = 835
    /\ InFrame(2) /\ FrameRow(2).diff = -600

\* C2: a row whose actual time on the scheduled date is more than 10 hours
\* after the scheduled date-time gets one day subtracted from its actual
\* date-time and a stored delay of the naive difference minus 1440.
C2_EarlyRollover ==
    Returned =>
        \A i \in 1..Len(df) :
            (Parsed(df[i]) /\ NaiveDiff(df[i]) > 600) =>
                /\ actDate[i] = ActOnSchedDate(df[i]) - 1440
                /\ (ReturnedFrame /\ InFrame(i)) =>
                       /\ FrameRow(i).actFull = ActOnSchedDate(df[i]) - 1440
                       /\ FrameRow(i).diff = NaiveDiff(df[i]) - 1440

\* scheduled 00:10 with actual 23:55 is stored with delay -15
C2_Witness ==
    /\ ReturnedFrame
    /\ \E i \in 1..Len(df) :
          /\ df[i].sched = SchedDay * 1440 + 10 /\ df[i].act = 1435
          /\ InFrame(i) /\ FrameRow(i).actFull = (SchedDay - 1) * 1440 + 1435
          /\ FrameRow(i).diff = -15

\* C3: process_columns returns a frame that holds no row for a raw row whose
\* scheduled or actual time is unparseable and still holds the rows of the
\* same frame that parse (the integer conversion of the delay does not abort
\* the call).
C3_UnparseableRowDropped ==
    Returned =>
        /\ ~new_df.raised
        /\ \A i \in 1..Len(df) :
              /\ ~Parsed(df[i]) => ~InFrame(i)
              /\ (Parsed(df[i]) /\ df[i].origin # NaT) => InFrame(i)

\* C23: in the frame process_columns returns, the Service Disruption flag of
\* a row is 1 where the raw row has 'SD' and 0 where it has '', its
\* Cancellations flag 1 for 'C' and 0 for '', and both flags are 0 or 1.
C23_FlagMapping ==
    ReturnedFrame =>
        \A k \in 1..Len(new_df.frame) :
            LET row == new_df.frame[k]
                r   == df[row.idx]
            IN  /\ r.sd = "SD" => row.sd = 1
                /\ r.sd = "" => row.sd = 0
                /\ r.cn = "C" => row.cn = 1
                /\ r.cn = "" => row.cn = 0
                /\ row.sd \in {0, 1} /\ row.cn \in {0, 1}

\* a returned frame with a disrupted, not cancelled row and a cancelled, not
\* disrupted one
C23_Witness ==
    /\ ReturnedFrame
    /\ \E k \in 1..Len(new_df.frame) :
          /\ df[new_df.frame[k].idx].sd = "SD" /\ df[new_df.frame[k].idx].cn = ""
          /\ new_df.frame[k].sd = 1 /\ new_df.frame[k].cn = 0
    /\ \E k \in 1..Len(new_df.frame) :
          /\ df[new_df.frame[k].idx].sd = "" /\ df[new_df.frame[k].idx].cn = "C"
          /\ new_df.frame[k].sd = 0 /\ new_df.frame[k].cn = 1

\* C27: for a row whose actual time is composed on the scheduled calendar
\* date, the late and the early mask are never both true, a naive difference
\* of exactly -10h or +10h is left uncorrected, the stored delay lies strictly
\* between -840 and +840 minutes, and a naive difference above +10h is stored
\* as an early arrival (a negative delay).
C27_DelayBound ==
    Returned =>
        \A i \in 1..Len(df) :
            Parsed(df[i]) =>
                /\ ~(m_late(df[i]) /\ m_early(df[i]))
                /\ NaiveDiff(df[i]) \in {-600, 600} =>
                      /\ ~m_late(df[i]) /\ ~m_early(df[i])
                      /\ actDate[i] = ActOnSchedDate(df[i])
                /\ actDate[i] - df[i].sched > -840 /\ actDate[i] - df[i].sched < 840
                /\ (ReturnedFrame /\ InFrame(i)) =>
                       /\ FrameRow(i).diff > -840 /\ FrameRow(i).diff < 840
                       /\ NaiveDiff(df[i]) \in {-600, 600} =>
                              FrameRow(i).diff = NaiveDiff(df[i])
                       /\ NaiveDiff(df[i]) > 600 => FrameRow(i).diff < 0

\* scheduled 00:10: actual 10:11 (naive +601) is stored as -839, next to
\* actual 10:10 (naive +600) stored as +600
C27_Witness ==
    /\ ReturnedFrame
    /\ Len(df) = 2
    /\ df[1].sched = SchedDay * 1440 + 10 /\ df[1].act = 611
    /\ InFrame(1) /\ FrameRow(1).diff = -839
    /\ df[2].sched = SchedDay * 1440 + 10 /\ df[2].act = 610
    /\ InFrame(2) /\ FrameRow(2).diff = 600

(***************************************************************************)
(* Claims about raw_data_to_raw_df (checked under SpecRaw)                  *)
(***************************************************************************)
RawReturned == pc = "returned" /\ ~raw_df.raised

\* the rows of a page from which records are read at all
ReadRows(page) == IF Len(page) > 3 THEN 3..Len(page) ELSE {}

RecordsAt(st, i, j) == {k \in 1..Len(raw_df.frame) : raw_df.frame[k].at = <<st, i, j>>}

\* C4: no record is emitted for a table row whose cell count is not 7; such a
\* row raises nothing, and every 7-cell row of the pages read still gets its
\* one record.
C4_MalformedRowsSkipped ==
    /\ (pc = "returned" /\ raw_df.raised) =>
           (Len(raw_data["NYP"]) = 0 \/ Len(raw_data["NYP"][1]) < 2)
    /\ RawReturned =>
           \A st \in StationSet : \A i \in 1..Len(raw_data[st]) :
              \A j \in 1..Len(raw_data[st][i]) :
                 /\ raw_data[st][i][j].cells # 7 => RecordsAt(st, i, j) = {}
                 /\ (j \in ReadRows(raw_data[st][i]) /\ raw_data[st][i][j].cells = 7) =>
                        Cardinality(RecordsAt(st, i, j)) = 1

\* a page whose third row has 8 cells and whose fourth has 7: one record, for
\* the fourth row
C4_Witness ==
    /\ RawReturned
    /\ Len(raw_data["BOS"]) = 1
    /\ Len(raw_data["BOS"][1]) = 4
    /\ raw_data["BOS"][1][3].cells = 8
    /\ raw_data["BOS"][1][4].cells = 7
    /\ RecordsAt("BOS", 1, 3) = {}
    /\ Cardinality(RecordsAt("BOS", 1, 4)) = 1

RecordsOf(st) == {k \in 1..Len(raw_df.frame) : raw_df.frame[k].Station = st}

\* C12: raw_data_to_raw_df returns a frame whatever station has no page or
\* only pages without usable rows, NYP included: such a station has no record
\* in it, and every 7-cell row of the pages read of the other stations has
\* its one record.
C12_EmptyStationNotFatal ==
    pc = "returned" =>
        /\ ~raw_df.raised
        /\ \A st \in StationSet :
              /\ (\A i \in 1..Len(raw_data[st]) : ReadRows(raw_data[st][i]) = {}) =>
                     RecordsOf(st) = {}
              /\ \A i \in 1..Len(raw_data[st]) : \A j \in ReadRows(raw_data[st][i]) :
                     raw_data[st][i][j].cells = 7 => Cardinality(RecordsAt(st, i, j)) = 1

\* a page as the site answers a request group of retrieve_data: the groups
\* hold even numbers only or odd numbers only, so the trains of the rows have
\* the parity of the number in the title
GroupPage(page) == \A j \in 3..Len(page) : page[j].num % 2 = page[1].num % 2

\* C21: every record read from a page fetched for a request group of
\* retrieve_data has Direction 'Northbound' exactly when the train number of
\* its own row is even, and 'Southbound' exactly when it is odd.
C21_DirectionParity ==
    RawReturned =>
        \A k \in 1..Len(raw_df.frame) :
            LET rec == raw_df.frame[k]
            IN  GroupPage(raw_data[rec.at[1]][rec.at[2]]) =>
                    /\ rec.Direction = "Northbound" <=> rec.num % 2 = 0
                    /\ rec.Direction = "Southbound" <=> rec.num % 2 = 1

\* a frame with records of a northbound page and of a southbound page
C21_Witness ==
    /\ RawReturned
    /\ \E k \in 1..Len(raw_df.frame) :
          /\ GroupPage(raw_data[raw_df.frame[k].at[1]][raw_df.frame[k].at[2]])
          /\ raw_df.frame[k].num % 2 = 0 /\ raw_df.frame[k].Direction = "Northbound"
    /\ \E k \in 1..Len(raw_df.frame) :
          /\ GroupPage(raw_data[raw_df.frame[k].at[1]][raw_df.frame[k].at[2]])
          /\ raw_df.frame[k].num % 2 = 1 /\ raw_df.frame[k].Direction = "Southbound"

\* C28: a record comes only from a page of more than 3 table rows, from a
\* row at index >= 2 (the third row on) that has 7 cells, and carries the
\* station the page was stored under; each such row has exactly one record,
\* and the records of a page stand in the order of its rows.  A page of 3 or
\* fewer rows has no record, a 7-cell data row notwithstanding.
C28_PageThreshold ==
    RawReturned =>
        /\ \A k \in 1..Len(raw_df.frame) :
              LET rec  == raw_df.frame[k]
                  page == raw_data[rec.at[1]][rec.at[2]]
              IN  /\ Len(page) > 3
                  /\ rec.at[3] >= 3
                  /\ page[rec.at[3]].cells = 7
                  /\ rec.Station = rec.at[1]
        /\ \A st \in StationSet : \A i \in 1..Len(raw_data[st]) :
              /\ Len(raw_data[st][i]) > 3 =>
                     \A j \in 3..Len(raw_data[st][i]) :
                         raw_data[st][i][j].cells = 7 =>
                             Cardinality(RecordsAt(st, i, j)) = 1
              /\ Len(raw_data[st][i]) <= 3 =>
                     \A j \in 1..Len(raw_data[st][i]) : RecordsAt(st, i, j) = {}
        /\ \A k, l \in 1..Len(raw_df.frame) :
              (/\ k < l
               /\ raw_df.frame[k].at[1] = raw_df.frame[l].at[1]
               /\ raw_df.frame[k].at[2] = raw_df.frame[l].at[2]) =>
                  raw_df.frame[k].at[3] < raw_df.frame[l].at[3]

\* the page of BOS has title, header and one 7-cell data row and no record;
\* the page of NYP has two 7-cell data rows and their two records, in order
C28_Witness ==
    /\ RawReturned
    /\ Len(raw_data["BOS"]) = 1 /\ Len(raw_data["BOS"][1]) = 3
    /\ raw_data["BOS"][1][3].cells = 7
    /\ RecordsOf("BOS") = {}
    /\ Len(raw_data["NYP"]) = 1 /\ Len(raw_data["NYP"][1]) = 4
    /\ raw_data["NYP"][1][3].cells = 7 /\ raw_data["NYP"][1][4].cells = 7
    /\ Len(raw_df.frame) = 2
    /\ raw_df.frame[1].at = <<"NYP", 1, 3>> /\ raw_df.frame[2].at = <<"NYP", 1, 4>>

(***************************************************************************)
(* Claims about construct_urls (checked under SpecUrls)                     *)
(***************************************************************************)
\* the train numbers of a group joined by '%2C'
Joined(group) ==
    [k \in 1..(2 * Len(group) - 1) |-> IF k % 2 = 1 THEN Str(group[(k + 1) \div 2]) ELSE "%2C"]

\* the groups of the call in the order the URLs are made for them, each with
\* the terminal of its departures and the terminal of its arrivals
CallGroups ==
    [k \in 1..Len(url_args.northbound_trains) |->
        [trains |-> url_args.northbound_trains[k], depart |-> "WAS", arrive |-> "BOS"]] \o
    [k \in 1..Len(url_args.southbound_trains) |->
        [trains |-> url_args.southbound_trains[k], depart |-> "BOS", arrive |-> "WAS"]]

\* the URL carries the trains of the group joined by '%2C', the two dates, the
\* station and the sort key
Carries(url, group, station, sort) ==
    LET n == 2 * Len(group) - 1
    IN  /\ Len(url) = n + 18
        /\ SubSeq(url, 2, n + 1) = Joined(group)
        /\ SubSeq(url, n + 2, n + 13) =
               convert_dates_to_string(url_args.start_date, url_args.end_date)
        /\ url[n + 15] = station /\ url[n + 17] = sort

\* C22: construct_urls requests nothing; its Depart list has one entry for
\* each group and each of the departure stations plus the terminal of the
\* group's direction (WAS northbound, BOS southbound), its Arrive list one for
\* each group and each of the arrival stations plus the terminal (BOS
\* northbound, WAS southbound), in the order of the groups; each URL carries
\* the trains of its group joined by '%2C' and the two dates; and the same
\* arguments give the same lists.
C22_UrlConstruction ==
    pc = "returned" =>
        LET d == Len(url_depart) + 1
            a == Len(url_arrive) + 1
        IN  /\ requested = <<>> /\ outcomes = <<>>
            /\ Len(urls.Depart) = Len(CallGroups) * d
            /\ Len(urls.Arrive) = Len(CallGroups) * a
            /\ \A g \in 1..Len(CallGroups) :
                  /\ \A k \in 1..d :
                        LET e  == urls.Depart[(g - 1) * d + k]
                            st == (url_depart \o <<CallGroups[g].depart>>)[k]
                        IN  e[1] = st /\ Carries(e[2], CallGroups[g].trains, st, "DEP")
                  /\ \A k \in 1..a :
                        LET e  == urls.Arrive[(g - 1) * a + k]
                            st == (url_arrive \o <<CallGroups[g].arrive>>)[k]
                        IN  e[1] = st /\ Carries(e[2], CallGroups[g].trains, st, "ARR")
            /\ urls = Construct(url_args)

\* a call with two northbound groups, one of them of two trains, and a
\* southbound group
C22_Witness ==
    /\ pc = "returned"
    /\ Len(url_args.northbound_trains) = 2 /\ Len(url_args.southbound_trains) = 1
    /\ \E k \in 1..2 : Len(url_args.northbound_trains[k]) = 2
    /\ Len(urls.Depart) = 9 /\ Len(urls.Arrive) = 6

(***************************************************************************)
(* Claims about update_trains (checked under SpecUpd)                       *)
(***************************************************************************)
Called == lastCall # <<>>

InStops(arr_or_dep, row) ==
    \E q \in stops : /\ q.arrival_or_departure = arr_or_dep
                     /\ q.train_num = row.train_num
                     /\ q.station_code = row.station_code
                     /\ q.origin_date = row.origin_date

\* C5: after update_trains has committed, every row of the file whose insert
\* did not raise is in the table, whether it stood before or after a row
\* whose insert raised.
C5_GoodRowsSurviveBadRow ==
    Called =>
        \A i \in 1..Len(lastCall[2]) :
            ~lastCall[2][i].bad => InStops(lastCall[1], lastCall[2][i])

RowCount(k) == Cardinality({q \in stops : StopKey(q) = k})

\* C6: with the natural key unique in stops, a second update_trains with the
\* rows of the first (all of them accepted by the store) raises nothing and
\* leaves the table as it was, one row for each key of the file.
C6_SecondRunNoOp ==
    [][(/\ Called
        /\ lastCall' = lastCall
        /\ calls' = calls + 1
        /\ \A i \in 1..Len(lastCall[2]) : ~lastCall[2][i].bad)
       => /\ stops' = stops
          /\ errors' = 0
          /\ \A i \in 1..Len(lastCall[2]) :
                RowCount(<<lastCall[2][i].origin_date, lastCall[2][i].train_num,
                           lastCall[2][i].station_code, lastCall[1]>>)' = 1]_vars

\* the same two-row file has been inserted twice
C6_Witness ==
    /\ repeats = 1
    /\ Len(lastCall[2]) = 2
    /\ lastCall[2][1].station_code # lastCall[2][2].station_code
    /\ \A i \in 1..2 : ~lastCall[2][i].bad
    /\ Cardinality(stops) = 2
    /\ stop_seq = 3
    /\ errors = 0

(***************************************************************************)
(* Claims about ETL_previous_day_weather_data (checked under SpecWx)        *)
(***************************************************************************)
Complete(row) ==
    row.temperature # -9999 /\ row.precipitation # -9999 /\ row.cloud_cover # -9999

CompleteHours(k) == {h \in 1..Len(responses[k].rows) : Complete(responses[k].rows[h])}

Persisted(k) == {w \in weather_hourly : w.location = Address(Locations[k])}

LogLines(k) == {n \in 1..Len(wx_log) : wx_log[n].filename = Filename(Locations[k])}

\* C10: for each location whose request succeeded, the call persists exactly
\* the hourly rows that have temperature, precipitation and cloud cover (a
\* row without weather type among them) and logs their number out of 24.
C10_WeatherFilter ==
    pc = "returned" =>
        \A k \in 1..Len(Locations) :
            responses[k].status = "ok" =>
                /\ {w.obs_datetime : w \in Persisted(k)} =
                      {(today - 1) * 24 + h - 1 : h \in CompleteHours(k)}
                /\ Cardinality(Persisted(k)) = Cardinality(CompleteHours(k))
                /\ \A w \in Persisted(k) :
                      LET row == responses[k].rows[w.obs_datetime - (today - 1) * 24 + 1]
                      IN  /\ w.temperature = row.temperature
                          /\ w.precipitation = row.precipitation
                          /\ w.cloud_cover = row.cloud_cover
                          /\ w.weather_type = row.weather_type
                /\ Cardinality(LogLines(k)) = 1
                /\ \A n \in LogLines(k) :
                      wx_log[n].rows_kept = Cardinality(CompleteHours(k)) /\ wx_log[n].of = 24

\* 24 hourly rows, 2 of them without cloud cover and none with a weather
\* type: 22 rows persisted, "22/24" logged
C10_Witness ==
    /\ pc = "returned"
    /\ Len(responses[1].rows) = 24
    /\ Cardinality({h \in 1..24 : responses[1].rows[h].cloud_cover = -9999}) = 2
    /\ \A h \in 1..24 : responses[1].rows[h].weather_type = <<>>
    /\ Cardinality(Persisted(1)) = 22
    /\ \E n \in LogLines(1) : wx_log[n].rows_kept = 22 /\ wx_log[n].of = 24

\* C13: an HTTP error status for a location does not end the call; that
\* location gets no row and no "Successful ETL" line, and every location that
\* answered has its complete rows inserted and its line logged.
C13_HttpErrorSkipsLocation ==
    /\ (\A k \in 1..Len(Locations) : responses[k].status # "ConnectionError") =>
           pc # "raised"
    /\ pc = "returned" =>
           \A k \in 1..Len(Locations) :
               /\ responses[k].status = "HTTPError" =>
                      (Persisted(k) = {} /\ LogLines(k) = {})
               /\ responses[k].status = "ok" =>
                      /\ Cardinality(Persisted(k)) = Cardinality(CompleteHours(k))
                      /\ Cardinality(LogLines(k)) = 1

\* Boston answered with an HTTP error status, Manhattan's rows are inserted
C13_Witness ==
    /\ pc = "returned"
    /\ responses[1].status = "HTTPError"
    /\ responses[2].status = "ok"
    /\ Persisted(1) = {}
    /\ Cardinality(Persisted(2)) = 2
    /\ \E n \in 1..Len(wx_log) : wx_log[n].filename = "Manhattan_NY" /\ wx_log[n].rows_kept = 2

(***************************************************************************)
(* Claims about join_datasets and the dashboard (checked under SpecJob)     *)
(***************************************************************************)
KeyOf(r) == <<r.origin_date, r.train_num, r.station_code, r.arrival_or_departure>>

RowsOfKey(table, k) == {r \in table : KeyOf(r) = k}

\* the step that commits the remove_duplicates pass
DedupCommits == pc = "dedup" /\ pc' = "precip" /\ ~db_error'

\* C7: the committed remove_duplicates pass leaves, for every natural key that
\* had rows in stops_joined, exactly one row, the one with the lowest stop_id
\* of the key; the row of a key that had a single row is untouched.
C7_DedupKeepsLowestId ==
    [][DedupCommits =>
          \A r \in stops_joined :
              LET before == RowsOfKey(stops_joined, KeyOf(r))
                  after  == RowsOfKey(stops_joined', KeyOf(r))
              IN  /\ Cardinality(after) = 1
                  /\ after \subseteq before
                  /\ \A a \in after : \A b \in before : a.stop_id <= b.stop_id]_vars

\* after a committed pass one row is left of a key that a second run had
\* joined again: the row of the first run
C7_Witness ==
    /\ pc = "precip" /\ ~db_error /\ runs = 2
    /\ stop_seq >= 3
    /\ \E r \in stops_joined : r.stop_id = 1 /\ r.arrival_or_departure = "Arrival"
                                /\ r.precip_type # "NULL"
    /\ \A r \in stops_joined : r.arrival_or_departure = "Arrival" => r.stop_id = 1
    /\ query_df # stops_joined
    /\ \E q \in query_df : q.arrival_or_departure = "Arrival" /\ q.stop_id > 1

UniqueKeys(table) == \A r, q \in table : KeyOf(r) = KeyOf(q) => r = q

\* C8: every committed state of stops_joined, and so every result a dashboard
\* query reads, holds at most one row for each natural key.
C8_UniqueKeyAtEveryRead ==
    UniqueKeys(stops_joined) /\ UniqueKeys(query_df)

(***************************************************************************)
(* Claims about update_precip (checked under SpecPrecip)                    *)
(***************************************************************************)
\* C9: after update_precip every row has a precip_type of 'None', 'Rain' or
\* 'Snow'; none is left NULL.
C9_PrecipTotal ==
    pc \in {"updated", "updated twice"} =>
        \A r \in stops_joined : r.precip_type \in {"None", "Rain", "Snow"}

\* C20: after update_precip a row has 'None' when its weather-type text is
\* empty and its precipitation 0; 'Snow' when the text has the snow marker,
\* with or without the rain marker; 'Rain' when it has the rain marker and not
\* the snow marker; with an empty text and precipitation above 0, 'Rain' at a
\* temperature of 32 or more and 'Snow' below 32.  At most one WHEN condition
\* holds for a row, and it is the one whose value the row has, whatever its
\* place in the CASE; update_precip applied again changes nothing.
C20_PrecipPriority ==
    pc \in {"updated", "updated twice"} =>
        /\ \A r \in stops_joined :
              LET w == r.weather_type
                  p == r.precipitation
                  t == r.temperature
                  branches == PrecipBranches(w, p, t)
              IN  /\ (w = <<>> /\ p = 0) => r.precip_type = "None"
                  /\ Like(w, "Snow") => r.precip_type = "Snow"
                  /\ (Like(w, "Rain") /\ ~Like(w, "Snow")) => r.precip_type = "Rain"
                  /\ (w = <<>> /\ p > 0 /\ t >= 32) => r.precip_type = "Rain"
                  /\ (w = <<>> /\ p > 0 /\ t < 32) => r.precip_type = "Snow"
                  /\ Cardinality({k \in 1..Len(branches) : branches[k].when}) <= 1
                  /\ \A k \in 1..Len(branches) :
                        branches[k].when => r.precip_type = branches[k].then
        /\ update_precip(Db) = Db

\* update_precip has run twice over a table with both markers in one row and
\* an empty text with precipitation at 32 degrees in another
C20_Witness ==
    /\ pc = "updated twice"
    /\ \E r \in stops_joined :
          Like(r.weather_type, "Snow") /\ Like(r.weather_type, "Rain") /\ r.precip_type = "Snow"
    /\ \E r \in stops_joined :
          /\ r.weather_type = <<>> /\ r.precipitation > 0 /\ r.temperature = 32
          /\ r.precip_type = "Rain"

(***************************************************************************)
(* Claims about retrieve_data (checked under SpecFetch)                     *)
(***************************************************************************)
Failed(i) == i <= Len(outcomes) /\ outcomes[i] # "ok"

Recorded(i) ==
    \E n \in 1..Len(failed_retrievals) : failed_retrievals[n] = <<Urls[i].station, i>>

Appended(i) ==
    \E n \in 1..Len(fetched[Urls[i].kind][Urls[i].station]) :
        fetched[Urls[i].kind][Urls[i].station][n] = i

\* C11: a request that fails (HTTP error status, timeout or connection error)
\* raises nothing out of retrieve_data, is recorded in failed_retrievals and
\* appends nothing to raw_data; the remaining URLs are still requested, and
\* when retrieve_data is over every URL has been requested exactly once.
C11_FailedFetchSkipped ==
    /\ pc # "raised"
    /\ \A i \in 1..Len(Urls) :
          /\ requested[i] <= 1
          /\ Failed(i) => (Recorded(i) /\ ~Appended(i))
    /\ pc = "returned" => \A i \in 1..Len(Urls) : requested[i] = 1

\* the stations of the (station, URL) pairs of a list of construct_urls
Emitted(pairs) == {pairs[k][1] : k \in 1..Len(pairs)}

\* C30: every station construct_urls emits under 'Arrive' is a key of
\* make_dict()['Arrive'] and every station it emits under 'Depart' a key of
\* make_dict()['Depart'] (for the URLs requested here and for the whole of
\* the lists arrive and depart with either terminal), so storing a page never
\* raises KeyError, and every page stored stands under the kind and the
\* station of the URL that was requested for it.
C30_StationsAreKeys ==
    /\ pc # "KeyError"
    /\ Emitted(urls.Depart) \subseteq DOMAIN fetched.Depart
    /\ Emitted(urls.Arrive) \subseteq DOMAIN fetched.Arrive
    /\ Range(url_depart) \subseteq Range(depart_list)
    /\ Range(url_arrive) \subseteq Range(arrive_list)
    /\ Range(depart_list) \cup {"WAS", "BOS"} \subseteq DOMAIN fetched.Depart
    /\ Range(arrive_list) \cup {"BOS", "WAS"} \subseteq DOMAIN fetched.Arrive
    /\ \A i \in 1..Len(outcomes) : outcomes[i] = "ok" => Appended(i)
    /\ \A kind \in DOMAIN fetched : \A st \in DOMAIN fetched[kind] :
          \A n \in 1..Len(fetched[kind][st]) :
              LET i == fetched[kind][st][n]
              IN  /\ Urls[i].kind = kind /\ Urls[i].station = st
                  /\ outcomes[i] = "ok"

\* every request answered with a page: the departures of New Haven, of
\* Washington and of Boston and the arrivals of New York stored under their
\* stations
C30_Witness ==
    /\ pc = "returned"
    /\ \A i \in 1..Len(Urls) : outcomes[i] = "ok"
    /\ fetched.Depart["NHV"] = <<1, 4>>
    /\ fetched.Depart["WAS"] = <<3>> /\ fetched.Depart["BOS"] = <<6>>
    /\ fetched.Arrive["NYP"] = <<7, 9>>
    /\ fetched.Arrive["BOS"] = <<8>> /\ fetched.Arrive["WAS"] = <<10>>

(***************************************************************************)
(* Claims about generate_query (checked under SpecDash)                     *)
(***************************************************************************)
\* a call of generate_query whose query the store answered
QueryAnswered == callback' \notin {"DatabaseError"} /\ n_clicks' # n_clicks

\* C14: a call of generate_query made before any click, or whose query is
\* answered with zero rows, ends with PreventUpdate and with alert-msg and
\* geo-route as they were.
C14_ZeroRowsPreventUpdate ==
    [][/\ (n_clicks = 0 /\ n_clicks' = n_clicks /\ callback' # callback) =>
              (callback' = "PreventUpdate" /\ alert_msg' = alert_msg /\ figure' = figure)
       /\ (QueryAnswered /\ Len(query_df') = 0) =>
              (callback' = "PreventUpdate" /\ alert_msg' = alert_msg /\ figure' = figure)]_vars

\* a first click has drawn a result; a second click, answered with zero rows,
\* has left it on display
C14_Witness ==
    /\ n_clicks = 2
    /\ callback = "PreventUpdate"
    /\ query_df = <<>>
    /\ alert_msg.kind = "success" /\ alert_msg.query_size >= 1
    /\ figure.kind = "query"

\* the stops_joined rows the latest click asked for
Asked ==
    {r \in stops_joined :
        /\ Quote(r.direction) = controls.direction
        /\ \E i \in controls.days : day_names[i + 1] = r.sched_arr_dep_week_day
        /\ \E k \in 1..Len(controls.weather_type) : controls.weather_type[k] = r.precip_type}

AskedAt(st, ad) == {r \in Asked : r.station_code = st /\ r.arrival_or_departure = ad}

ResultRows(st, ad) ==
    {k \in 1..Len(query_df) : query_df[k].Station = st /\ query_df[k].ArrivalOrDeparture = ad}

\* the stop number of a station on the way of the direction asked for
StopNumberAsked(st) ==
    IF controls.direction = "'Northbound'" THEN nb_stop_num(st) ELSE sb_stop_num(st)

\* C15: after a click with days and precipitation types selected, the frame
\* of the query holds one row for each (station, arrival-or-departure) that has
\* rows asked for and none for any other; its Num Records is their number, its
\* Average Delay the integer nearest to their mean; and the rows stand in
\* ascending order of the stop number of the direction asked for.
C15_AggregateShape ==
    (n_clicks > 0 /\ controls.days # {} /\ controls.weather_type # <<>>) =>
        /\ \A st \in {"BOS", "NYP"}, ad \in {"Arrival", "Departure"} :
              /\ Cardinality(ResultRows(st, ad)) = IF AskedAt(st, ad) = {} THEN 0 ELSE 1
              /\ \A k \in ResultRows(st, ad) :
                    LET n == Cardinality(AskedAt(st, ad))
                    IN  /\ query_df[k].NumRecords = n /\ n >= 1
                        /\ query_df[k].AverageDelay \in Int
                        /\ 2 * (query_df[k].AverageDelay * n - SumDelay(AskedAt(st, ad))) <= n
                        /\ 2 * (SumDelay(AskedAt(st, ad)) - query_df[k].AverageDelay * n) <= n
        /\ \A i, j \in 1..Len(query_df) :
              i < j => StopNumberAsked(query_df[i].Station) <= StopNumberAsked(query_df[j].Station)

(***************************************************************************)
(* Claims about stops_joined across the runs of the job                     *)
(***************************************************************************)
\* C16: every row stops_joined held when a run of join_datasets ended (a row
\* that was there after the dedup pass of the run that created it) is in
\* stops_joined, with the same values in every column, precip_type among
\* them, when the next run of join_datasets ends, and so after every later one.
C16_AppendOnly ==
    [][(pc = "precip" /\ pc' = "idle") => settled \subseteq stops_joined']_vars

(***************************************************************************)
(* Claims about the start of app.py                                         *)
(***************************************************************************)
\* C17: when one of DATABASE_URL, VC_TOKEN, MAPBOX_TOKEN is not set, the start
\* never gets to serving, no page is served, and no run of cron_etl_job (so no
\* ETL step) is started.
C17_MissingConfigFatal ==
    env # EnvNames => (boot # "serving" /\ served = 0 /\ runs = 0)

C19_StepOrder ==
    [][/\ (pc' = "weather" /\ pc # "weather") => (pc = "idle" /\ runs' = runs + 1)
       /\ (pc' = "join" /\ pc # "join") =>
             /\ pc = "weather"
             /\ ~ETL_previous_day_weather_data(weather_hourly, responses', today - 1).raised
       /\ (pc = "weather" /\ pc' \notin {"weather", "join"}) =>
             /\ ETL_previous_day_weather_data(weather_hourly, responses', today - 1).raised
             /\ pc' = "idle" /\ stops' = stops /\ stops_joined' = stops_joined
       /\ (pc = "idle" /\ pc' = "idle" /\ runs' # runs) =>
             (stops' = stops /\ weather_hourly' = weather_hourly
                 /\ stops_joined' = stops_joined)
       /\ (stops' # stops /\ stops' = {}) => pc = "join"
       /\ stops_joined' # stops_joined => pc \in {"join", "dedup", "precip"}]_vars

\* the one run so far staged stops and ended in its weather ETL: the
\* connection to the weather API failed, and the stops are still staged
C19_Witness ==
    /\ pc = "idle" /\ runs = 1 /\ stops # {} /\ stops_joined = {}
    /\ responses # <<>> /\ responses[1] = ConnectionError

\* C26: whenever the query of a click has come back with rows, get_colors
\* completes and generate_query returns a figure that has a color, a delay
\* and a count for every station of the result, whichever of 'Arrival' and
\* 'Departure' the rows of a station are.
C26_GetColorsTotal ==
    (n_clicks > 0 /\ callback # "DatabaseError" /\ Len(query_df) > 0) =>
        /\ callback = "returned"
        /\ figure.kind = "query"
        /\ Len(figure.delays) = Len(query_df) /\ Len(figure.counts) = Len(query_df)
        /\ \A k \in 1..Len(query_df) :
              \E c \in figure.colors : c[1] = query_df[k].Station

\* the k-th smallest index of a selection of days
NthDay(days, k) == CHOOSE d \in days : Cardinality({e \in days : e < d}) = k - 1

\* text is "(", then the n given literals with "," " " between them, then ")"
ListOf(text, n, literal(_)) ==
    /\ Len(text) = 3 * n
    /\ text[1] = "(" /\ text[Len(text)] = ")"
    /\ \A k \in 1..n : text[3 * k - 1] = literal(k)
    /\ \A k \in 1..(n - 1) : text[3 * k] = "," /\ text[3 * k + 1] = " "

\* C29: for a non-empty selection of days get_days returns "(", the quoted
\* names of the selected days from Sunday on, each once, separated by ", ",
\* and ")", with no separator before the ")"; get_precip_types does so for a
\* non-empty list of categories, in the order of the list.  For an empty
\* selection each returns ")", and generate_query then ends with the error of
\* the database, not with PreventUpdate.
C29_InListConstruction ==
    n_clicks > 0 =>
        /\ controls.days # {} =>
               LET day(k) == Quote(day_names[NthDay(controls.days, k) + 1])
               IN  ListOf(sent_query.selected_days, Cardinality(controls.days), day)
        /\ controls.weather_type # <<>> =>
               LET precip(k) == Quote(controls.weather_type[k])
               IN  ListOf(sent_query.weather_type, Len(controls.weather_type), precip)
        /\ controls.days = {} => sent_query.selected_days = <<")">>
        /\ controls.weather_type = <<>> => sent_query.weather_type = <<")">>
        /\ (controls.days = {} \/ controls.weather_type = <<>>) =>
               /\ callback = "DatabaseError"
               /\ ~(WellFormedList(sent_query.selected_days)
                    /\ WellFormedList(sent_query.weather_type))

\* a click with Sunday, Wednesday and Saturday selected and no category of
\* weather: the list of the three days, ")" for the categories, and the error
\* of the database
C29_Witness ==
    /\ n_clicks = 1
    /\ controls.days = {0, 3, 6} /\ controls.weather_type = <<>>
    /\ sent_query.selected_days =
           <<"(", "'Sunday'", ",", " ", "'Wednesday'", ",", " ", "'Saturday'", ")">>
    /\ sent_query.weather_type = <<")">>
    /\ callback = "DatabaseError"

(***************************************************************************)
(* Claims about the callbacks of the dashboard (checked under SpecPages)    *)
(***************************************************************************)
\* C24: no call of generate_query, show_step2, enable_send_query or
\* display_page changes a table: stops, weather_hourly and stops_joined stay
\* as they are, and nothing is inserted into query_logs (connect_and_query is
\* called without is_primary, so update_logs is not called).
C24_DashboardNeverWrites ==
    [][/\ stops' = stops /\ weather_hourly' = weather_hourly
       /\ stops_joined' = stops_joined /\ query_logs' = query_logs]_vars

\* generate_query has returned a figure, show_step2 has listed the trains of
\* a date and enable_send_query has shown a trip
C24_Witness ==
    /\ callback = "returned" /\ options # {} /\ card.kind = "trip_view"
    /\ layout = "/data1050-app-analysis"
    /\ stops_joined # {} /\ query_logs = <<>>

(***************************************************************************)
(* Claims about the stops the join finds no weather for                     *)
(***************************************************************************)
\* weather_hourly holds no row at the location of the stop's station for the
\* hour of its actual date-time
Unmatched(s) ==
    \A w \in weather_hourly :
        ~(w.location = weather_location_name(s.station_code) /\ w.obs_datetime = s.act_hour)

====
